---- MODULE Spec2Model ----
(***************************************************************************)
(* State-machine model of the DingTalk channel plugin: the AI card        *)
(* lifecycle engine (card/ai-card.ts), the card cache                     *)
(* (card/card-cache.ts), the card-mode and SDK-mode message handlers      *)
(* (message handler) and the session manager.                             *)
(*                                                                         *)
(* Every async function is cut at its awaits: one action runs the         *)
(* synchronous code between two suspension points.  A process holds a     *)
(* stack of frames (the awaits it is suspended at, innermost first) and a *)
(* pending result `res` (the settled promise its caller is about to       *)
(* observe).  A settled promise is delivered to the awaiting caller as a  *)
(* microtask, before any further I/O completion or timer: while some      *)
(* result is pending only continuation steps run (NoPending).             *)
(***************************************************************************)
EXTENDS Integers, Sequences, FiniteSets, TLC

----------------------------------------------------------------------------
(* Bounds of the model *)

NumProcs == 1      \* message callbacks / API callers of a run that issues them
                   \* one after another
NumTargets == 2    \* distinct (accountId, conversationId) targets
MaxCards == 2      \* card instances ever created (randomUUID ids are fresh)
MaxChunks == 2     \* fragments one gateway stream yields
MaxTicks == 1      \* times the clock is observed to have advanced
StartTime == 1000  \* Date.now() when the process starts
NumSenders == 1    \* distinct senderIds
MaxSessionTicks == 3  \* milliseconds the clock advances while sessions are observed
MaxTimeout == 1    \* largest sessionTimeout / maxAge passed, in milliseconds
MaxDedupTicks == 2 \* times the clock advances while deliveries are observed
MaxSegments == 2   \* pieces (words, blanks, images, markers) of a text handed to
                   \* the post-processing pipeline
MaxRetries == 2    \* largest maxRetries passed to retryWithBackoff
MaxTokens == 2     \* access tokens the server issues
MaxTokenTicks == 2 \* times the clock advances while tokens are fetched
NumTokenCallers == 2 \* calls of getAccessToken that may overlap
MaxLines == 3      \* lines of the response body of the gateway
MaxPushes == 2     \* calls of streamAICard on the card whose tokens are followed
MaxRuns == 2       \* runs of the pipeline, each on the output of the one before

\* the callers of a serial run, and one more message callback that the stream
\* client starts while another is in progress
Procs == 1..(NumProcs + 1)
Targets == 1..NumTargets
CardIds == 1..MaxCards
Senders == 1..NumSenders
\* sessionTimeout is any number (config-schema: z.number()), negative included
SessionTimeouts == (0 - 1)..MaxTimeout
MaxAges == 0..MaxTimeout

----------------------------------------------------------------------------
(* Program constants *)

PROCESSING == "1"
INPUTING == "2"
FINISHED == "3"
EXECUTING == "4"
FAILED == "5"
AICardStatus == {PROCESSING, INPUTING, FINISHED, EXECUTING, FAILED}

CARD_CACHE_TTL == 60 * 60 * 1000
TOKEN_REFRESH_THRESHOLD == 90 * 60 * 1000
CreateMaxRetries == 2
updateInterval == 300
MESSAGE_DEDUP_TTL == 5 * 60 * 1000
SweepSize == 100

\* the delays after which the program looks at the clock again: just past the
\* cache retention window, just past the token refresh threshold
Delays == {CARD_CACHE_TTL + 1, TOKEN_REFRESH_THRESHOLD + 1}

NoCard == 0
NoRes == [fn |-> "none", kind |-> "none", val |-> 0]

\* a request sent to DingTalk and how it settled
Req(op, body) == [op |-> op, body |-> body, resp |-> "pending"]
SetResp(rq, r) == [rq EXCEPT ![Len(rq)].resp = r]

Ret(fn, v) == [fn |-> fn, kind |-> "return", val |-> v]
Thrown(fn) == [fn |-> fn, kind |-> "throw", val |-> 0]

----------------------------------------------------------------------------
VARIABLES
  now,                  \* Date.now()
  ticks,                \* history: advances of the clock so far
  serial,               \* scheduling assumption of the run: a call or a message
                        \* is started only when the previous one has completed
  cards,                \* heap of AICardInstance objects, by cardInstanceId
  nextCardId,           \* next fresh cardInstanceId
  cardInstances,        \* keys of the cardInstances map
  activeCardsByTarget,  \* targetKey -> cardInstanceId (NoCard: no entry)
  inputingOk,           \* history: successful INPUTING requests per card
  stack,                \* per process: frames it is suspended at
  res,                  \* per process: settled promise not yet observed
  loc,                  \* per process: local variables of its frames
  reqs,                 \* history: requests of the current card call
  userSessions,         \* senderId -> UserSession (NoSession: no entry)
  returned,             \* history: sessionKey last returned per sender
  issued,               \* history: every sessionKey returned so far, per sender
  lastCall,             \* history: the most recent getSessionKey call
  processedMessages,    \* messageId -> Date.now() of its mark (NoStamp: no entry)
  otherMessages,        \* entries of processedMessages for the ids not followed:
                        \* how many were marked at each clock value
  stopped,              \* the stop flag of startDingTalkAccount
  dedupTicks,           \* history: advances of the clock between deliveries
  lastMarked,           \* history: when each followed id was last marked
  lastSweep,            \* history: when cleanupProcessedMessages last ran
  lastCallback,         \* history: the most recent stream callback
  pipeStage,            \* processPostPipeline: the pass that runs next
  pipeRuns,             \* history: runs of the pipeline so far
  pipeInput,            \* the content the pipeline was called with
  prevInput,            \* history: the content of the run before
  oapiToken,            \* context.oapiToken is present
  processedContent,     \* processedContent of processPostPipeline
  statusMessages,       \* statusMessages of processPostPipeline
  pipeCalls,            \* history: artifacts uploaded and sent by the run
  lastPass,             \* history: the marker pass that ran last
  retry,                \* the call of retryWithBackoff: its locals and its history
  tokens,               \* tokenCache and the calls of getAccessToken
  gateway,              \* streamFromGateway: the response body, buffer and yields
  push,                 \* a card of one account: its accessToken and the tokens
                        \* its content-replace requests carried
  display               \* handleWithCardMode: accumulated and the content it last
                        \* handed to streamAICard or finishAICard

vars == <<now, ticks, serial, cards, nextCardId, cardInstances, activeCardsByTarget,
          inputingOk, stack, res, loc, reqs, userSessions, returned, issued,
          lastCall, processedMessages, otherMessages, stopped, dedupTicks,
          lastMarked, lastSweep, lastCallback, pipeStage, pipeRuns, pipeInput,
          prevInput, oapiToken, processedContent, statusMessages, pipeCalls, lastPass, retry, tokens,
          gateway, push, display>>

cardVars == <<ticks, serial, cards, nextCardId, cardInstances, activeCardsByTarget,
              inputingOk, stack, res, loc, reqs>>

sessVars == <<userSessions, returned, issued, lastCall>>

dedupVars == <<processedMessages, otherMessages, stopped, dedupTicks, lastMarked,
               lastSweep, lastCallback>>

postVars == <<pipeStage, pipeRuns, pipeInput, prevInput, oapiToken, processedContent,
              statusMessages, pipeCalls, lastPass>>

utilVars == <<retry, tokens, gateway, push, display>>

\* what the actions on one of these leave alone
retryFrame == <<cardVars, sessVars, dedupVars, postVars, tokens, gateway, push, display>>
tokenFrame == <<cardVars, sessVars, dedupVars, postVars, retry, gateway, push, display>>
gatewayFrame == <<cardVars, sessVars, dedupVars, postVars, retry, tokens, push, display>>
displayFrame == <<cardVars, sessVars, dedupVars, postVars, retry, tokens, gateway, push>>
pushFrame == <<cardVars, sessVars, dedupVars, postVars, retry, gateway, display>>

\* the message ids followed: one missing (the header carries no messageId), two
\* present; the data of the messages in Malformed is not JSON
MsgIds == {"", "m1", "m2"}
Malformed == {"m2"}

NoStamp == 0 - 1

\* the clock values at which a delivery can be observed
DedupTimes ==
  {StartTime + a + b * MESSAGE_DEDUP_TTL :
     a \in 0..MaxDedupTicks, b \in 0..MaxDedupTicks}

NoMark == [at |-> NoStamp, by |-> "none", outcome |-> "none"]

NoCallback == [messageId |-> "", at |-> NoStamp, previous |-> NoMark, outcome |-> "none",
               steps |-> <<>>]

NoSession == [lastActivity |-> 0 - 1, sessionId |-> <<>>]

NoCall == [sender |-> 0, forceNew |-> FALSE, timeout |-> 0, at |-> 0,
           existing |-> NoSession, previous |-> <<>>, earlier |-> {},
           stored |-> NoSession,
           result |-> [sessionKey |-> <<>>, isNew |-> FALSE, forceNew |-> FALSE]]

cacheVars == <<cards, nextCardId, cardInstances, activeCardsByTarget>>

\* dmPolicy and allowFrom of the account configuration (the defaults), and
\* whether the sender id of the message is written in capitals
NoDm == [dmPolicy |-> "open", allowFrom |-> <<>>, upper |-> FALSE]

\* a SendResult not yet returned
NoResult == [ok |-> FALSE, usedAICard |-> FALSE, cardInstanceId |-> 0, returned |-> FALSE]

NoLoc == [mode |-> "idle", target |-> 0, card |-> NoCard, content |-> <<"none", 0>>,
          finished |-> FALSE, body |-> <<>>, guids |-> 0, attempt |-> 0,
          acc |-> 0, lastUpdateTime |-> 0, chunkNow |-> 0, notice |-> FALSE,
          sent |-> <<>>,
          \* history: the requests sent to the gateway
          streams |-> 0,
          \* history: the message handleDingTalkMessage was called with
          msg |-> [sender |-> 0 - 1, text |-> "", direct |-> FALSE, admitted |-> FALSE,
                   listed |-> FALSE, enabled |-> FALSE, at |-> 0, dm |-> NoDm],
          \* history: the cache entry of the target and the next fresh id at
          \* the call of getOrCreateCard, the card state at the call of
          \* streamAICard
          preMapped |-> 0, preLive |-> FALSE, preNext |-> 0, preState |-> "none",
          \* handleWithSDKMode: oapiToken is not null; history: whether the
          \* stream and the pipeline completed
          token |-> FALSE, outcome |-> "none",
          \* sendWithAICard: content, the card createAICard returned and the
          \* SendResult
          input |-> <<>>, created |-> 0, result |-> NoResult]

NoCardObj == [target |-> 0, state |-> "none", inputingStarted |-> FALSE,
              createdAt |-> 0, lastUpdated |-> 0]

\* the clientIds of the accounts, the calls of getAccessToken, an absent
\* tokenCache entry and a call not made
ClientIds == {"c1", "c2"}
TokenCallers == 1..NumTokenCallers
NoEntry == [token |-> 0, expiry |-> 0]
NoTokenCall == [state |-> "idle", client |-> "", at |-> 0, attempt |-> 0, posts |-> 0,
                seen |-> NoEntry, viaCache |-> FALSE, result |-> 0,
                stored |-> NoEntry, expireIn |-> 0]

\* no card yet: accessToken of the card, the token of its 401, the tokens its
\* content-replace requests carried, and whether the getAccessToken of the
\* 401 path fetched
NoPush == [state |-> "idle", client |-> "", accessToken |-> 0, rejected |-> 0,
           sent |-> <<>>, fetched |-> FALSE, pushes |-> 0, createdAt |-> 0]

\* handleWithCardMode before the gateway stream: accumulated is empty and no
\* content was handed to the card
NoDisplay == [state |-> "idle", accumulated |-> <<>>, fragments |-> 0,
              call |-> "none", content |-> <<>>]

InitState ==
  /\ now = StartTime
  /\ ticks = 0
  /\ cards = [c \in CardIds |-> NoCardObj]
  /\ nextCardId = 1
  /\ cardInstances = {}
  /\ activeCardsByTarget = [t \in Targets |-> NoCard]
  /\ inputingOk = [c \in CardIds |-> 0]
  /\ stack = [p \in Procs |-> <<>>]
  /\ res = [p \in Procs |-> NoRes]
  /\ loc = [p \in Procs |-> NoLoc]
  /\ reqs = [p \in Procs |-> <<>>]
  /\ userSessions = [s \in Senders |-> NoSession]
  /\ returned = [s \in Senders |-> <<>>]
  /\ issued = [s \in Senders |-> {}]
  /\ lastCall = NoCall
  /\ processedMessages = [m \in MsgIds |-> NoStamp]
  /\ otherMessages = [t \in DedupTimes |-> 0]
  /\ stopped = FALSE
  /\ dedupTicks = 0
  /\ lastMarked = [m \in MsgIds |-> NoMark]
  /\ lastSweep = NoStamp
  /\ lastCallback = NoCallback
  /\ pipeStage = "idle"
  /\ pipeRuns = 0
  /\ pipeInput = <<>>
  /\ prevInput = <<>>
  /\ oapiToken = FALSE
  /\ processedContent = <<>>
  /\ statusMessages = <<>>
  /\ pipeCalls = <<>>
  /\ lastPass = [kind |-> "none", before |-> <<>>, token |-> FALSE,
                 result |-> [content |-> <<>>, statusMessages |-> <<>>,
                             uploads |-> <<>>, sends |-> <<>>]]
  /\ retry = [state |-> "idle", maxRetries |-> 0, maxDelay |-> 0, attempt |-> 0,
               calls |-> 0, outcomes |-> <<>>, lastError |-> "", delay |-> 0,
               result |-> <<"none", "">>]
  /\ tokens = [cache |-> [c \in ClientIds |-> NoEntry],
            calls |-> [k \in TokenCallers |-> NoTokenCall],
            nextToken |-> 1, ticks |-> 0]
  /\ gateway = [state |-> "idle", lines |-> <<>>, terminated |-> TRUE,
                 rest |-> <<>>, buffer |-> <<>>, yielded |-> <<>>, reads |-> 0,
                 held |-> <<>>, cuts |-> 0]
  /\ push = NoPush
  /\ display = NoDisplay

Init == serial = TRUE /\ InitState

\* the stream client runs the callback of a message while the callbacks of
\* earlier messages are suspended at an await
InitConcurrent == serial = FALSE /\ InitState

----------------------------------------------------------------------------
(* Scheduling *)

NoPending == \A q \in Procs : res[q] = NoRes

Idle(p) == stack[p] = <<>> /\ res[p] = NoRes

At(p, frame) == stack[p] # <<>> /\ Head(stack[p]) = frame /\ NoPending

Resumed(p, frame, fn) ==
  stack[p] # <<>> /\ Head(stack[p]) = frame /\ res[p].fn = fn

InFrames(q, frames) == \E i \in 1..Len(stack[q]) : stack[q][i] \in frames

\* the calls of the run are issued one after another
CanStart(p) == serial => (p <= NumProcs /\ \A q \in Procs \ {p} : Idle(q))

PendingCreates == Cardinality({q \in Procs : InFrames(q, {"c_token"})})

----------------------------------------------------------------------------
(* card/ai-card.ts, card/card-cache.ts: pure parts *)

isCardInTerminalState(state) == state = FINISHED \/ state = FAILED

\* card-cache.ts getOrCreateCard: the mapped card is reused
CanReuseMutAlwaysCreate(id, cached, heap) == FALSE
CanReuse(id, cached, heap) ==
  id \in cached /\ ~isCardInTerminalState(heap[id].state)

ExpiredMutAnyAge(cached, heap, t) == {c \in cached : isCardInTerminalState(heap[c].state)}
\* card-cache.ts cleanupCardCache: the instances the sweep deletes
Expired(cached, heap, t) ==
  {c \in cached : isCardInTerminalState(heap[c].state)
                  /\ t - heap[c].lastUpdated > CARD_CACHE_TTL}

CleanedInstances(cached, heap, t) == cached \ Expired(cached, heap, t)

CleanedActive(active, cached, heap, t) ==
  [k \in Targets |-> IF active[k] \in Expired(cached, heap, t)
                       THEN NoCard ELSE active[k]]

----------------------------------------------------------------------------
(* createAICard and getOrCreateCard *)

\* getOrCreateCard: the mapping that is no longer valid is deleted
DropMappingMutKeep(active, t) == active
DropMapping(active, t) == [active EXCEPT ![t] = NoCard]

\* the target key is mapped to a cached instance that is not terminal
MappedLive(t, cached, active, heap) ==
  /\ active[t] # NoCard
  /\ active[t] \in cached
  /\ heap[active[t]].state \notin {FINISHED, FAILED}

\* getOrCreateCard(target) called by process p with locals l and caller frames
\* `rest`, on the cache (cached, active): runs up to its first await or its
\* return
EnterGetOrCreateCard(p, t, l, rest, cached, active) ==
  LET id == active[t] IN
  /\ cardInstances' = cached
  /\ loc' = [loc EXCEPT ![p] = [l EXCEPT !.target = t, !.preMapped = id,
                                          !.preLive = MappedLive(t, cached, active, cards),
                                          !.preNext = nextCardId]]
  /\ IF id # NoCard /\ CanReuse(id, cached, cards)
       THEN /\ activeCardsByTarget' = active
            /\ stack' = [stack EXCEPT ![p] = rest]
            /\ res' = [res EXCEPT ![p] = Ret("getOrCreateCard", id)]
            /\ reqs' = [reqs EXCEPT ![p] = <<>>]
       ELSE /\ nextCardId + PendingCreates <= MaxCards
            /\ activeCardsByTarget' = IF id # NoCard THEN DropMapping(active, t) ELSE active
            /\ stack' = [stack EXCEPT ![p] = <<"c_token", "goc_create">> \o rest]
            /\ res' = res
            /\ reqs' = [reqs EXCEPT ![p] = <<Req("CTOKEN", <<>>)>>]

\* createAICard: what its catch block hands to the caller
CreateCaughtMutRethrow == Thrown("createAICard")
CreateCaught == Ret("createAICard", NoCard)

\* createAICard: getAccessToken settled
CreateTokenResp(p, ok) ==
  /\ At(p, "c_token")
  /\ IF ok
       THEN /\ loc' = [loc EXCEPT ![p].card = nextCardId, ![p].attempt = 0]
            /\ nextCardId' = nextCardId + 1
            /\ stack' = [stack EXCEPT ![p] = <<"c_post">> \o Tail(@)]
            /\ res' = res
            /\ reqs' = [reqs EXCEPT ![p] =
                          Append(SetResp(@, "ok"), Req("CREATE", <<nextCardId>>))]
       ELSE /\ stack' = [stack EXCEPT ![p] = Tail(@)]
            /\ res' = [res EXCEPT ![p] = CreateCaught]
            /\ reqs' = [reqs EXCEPT ![p] = SetResp(@, "err")]
            /\ UNCHANGED <<loc, nextCardId>>
  /\ UNCHANGED <<now, ticks, serial, cards, cardInstances, activeCardsByTarget,
                 inputingOk>>
  /\ UNCHANGED <<sessVars, dedupVars, postVars, utilVars>>

\* the instance createAICard builds
NewInstance(t, at) ==
  [target |-> t, state |-> PROCESSING, inputingStarted |-> FALSE,
   createdAt |-> at, lastUpdated |-> at]

\* retryWithBackoff: the attempt that failed was the last one
RetriesExhaustedMutOneMore(attempt, maxRetries) == attempt = maxRetries + 1
RetriesExhausted(attempt, maxRetries) == attempt = maxRetries

\* createAICard: a createAndDeliver request settled
CreatePostResp(p, ok) ==
  /\ At(p, "c_post")
  /\ IF ok
       THEN /\ cards' = [cards EXCEPT ![loc[p].card] = NewInstance(loc[p].target, now)]
            /\ stack' = [stack EXCEPT ![p] = Tail(@)]
            /\ res' = [res EXCEPT ![p] = Ret("createAICard", loc[p].card)]
            /\ loc' = loc
       ELSE IF RetriesExhausted(loc[p].attempt, CreateMaxRetries)
         THEN /\ stack' = [stack EXCEPT ![p] = Tail(@)]
              /\ res' = [res EXCEPT ![p] = CreateCaught]
              /\ UNCHANGED <<cards, loc>>
         ELSE /\ stack' = [stack EXCEPT ![p] = <<"c_sleep">> \o Tail(@)]
              /\ UNCHANGED <<cards, loc, res>>
  /\ reqs' = [reqs EXCEPT ![p] = SetResp(@, IF ok THEN "ok" ELSE "err")]
  /\ UNCHANGED <<now, ticks, serial, nextCardId, cardInstances, activeCardsByTarget,
                 inputingOk>>
  /\ UNCHANGED <<sessVars, dedupVars, postVars, utilVars>>

\* retryWithBackoff: the backoff sleep ended, the request is issued again
CreateRetry(p) ==
  /\ At(p, "c_sleep")
  /\ loc' = [loc EXCEPT ![p].attempt = @ + 1]
  /\ stack' = [stack EXCEPT ![p] = <<"c_post">> \o Tail(@)]
  /\ reqs' = [reqs EXCEPT ![p] = Append(@, Req("CREATE", <<loc[p].card>>))]
  /\ UNCHANGED <<now, ticks, serial, cards, nextCardId, cardInstances,
                 activeCardsByTarget, inputingOk, res>>
  /\ UNCHANGED <<sessVars, dedupVars, postVars, utilVars>>

\* getOrCreateCard: createAICard settled
GocAfterCreate(p) ==
  /\ Resumed(p, "goc_create", "createAICard")
  /\ stack' = [stack EXCEPT ![p] = Tail(@)]
  /\ IF res[p].kind = "throw"
       THEN /\ res' = [res EXCEPT ![p] = Thrown("getOrCreateCard")]
            /\ UNCHANGED <<cardInstances, activeCardsByTarget>>
       ELSE /\ res' = [res EXCEPT ![p] = Ret("getOrCreateCard", res[p].val)]
            /\ IF res[p].val # NoCard
                 THEN /\ cardInstances' = cardInstances \cup {res[p].val}
                      /\ activeCardsByTarget' =
                           [activeCardsByTarget EXCEPT ![loc[p].target] = res[p].val]
                 ELSE UNCHANGED <<cardInstances, activeCardsByTarget>>
  /\ UNCHANGED <<now, ticks, serial, cards, nextCardId, inputingOk, loc, reqs>>
  /\ UNCHANGED <<sessVars, dedupVars, postVars, utilVars>>

\* cleanupCardCache()
CleanupCardCache ==
  /\ NoPending
  /\ Expired(cardInstances, cards, now) # {}
  /\ cardInstances' = CleanedInstances(cardInstances, cards, now)
  /\ activeCardsByTarget' = CleanedActive(activeCardsByTarget, cardInstances, cards, now)
  /\ UNCHANGED <<now, ticks, serial, cards, nextCardId, inputingOk, stack, res, loc, reqs>>
  /\ UNCHANGED <<sessVars, dedupVars, postVars, utilVars>>

----------------------------------------------------------------------------
(* streamAICard *)

\* the token of the card is older than the refresh threshold
TokenIsOld(card, t) == t - card.createdAt > TOKEN_REFRESH_THRESHOLD

\* the INPUTING transition has still to be requested
NeedsInputingMutNever(card) == FALSE
NeedsInputing(card) == ~card.inputingStarted

\* the state after a content-replace request succeeded
StateAfterPushMutRegress(state, finished) ==
  IF finished THEN FINISHED ELSE INPUTING
StateAfterPush(state, finished) ==
  IF finished THEN FINISHED
  ELSE IF state = PROCESSING THEN INPUTING ELSE state

\* the card after a content-replace request succeeded
PushSucceeded(card, finished, t) ==
  [card EXCEPT !.lastUpdated = t, !.state = StateAfterPush(card.state, finished)]

\* the card after the push failed for good
PushFailed(card, t) == [card EXCEPT !.state = FAILED, !.lastUpdated = t]

\* the failure of the content-replace request is an authorization failure
Is401(r) == r = "401"

\* the body of the retried request: the streamBody built before the first one
RetryBodyMutFreshGuid(l) == <<l.guids + 1, l.body[2], l.body[3], l.body[4]>>
RetryBody(l) == l.body

\* isFull of streamBody
isFull == TRUE

\* builds streamBody (guid, content, isFinalize, isFull) and issues
\* PUT /v1.0/card/streaming
StreamSendContent(p, l, frames, rq) ==
  LET body == <<l.guids + 1, l.content, l.finished, isFull>> IN
  /\ loc' = [loc EXCEPT ![p] = [l EXCEPT !.body = body, !.guids = @ + 1]]
  /\ stack' = [stack EXCEPT ![p] = <<"s_content">> \o frames]
  /\ reqs' = [reqs EXCEPT ![p] = Append(rq, Req("PUT", body))]

\* streamAICard after the optional token refresh
StreamCheckInputing(p, l, frames, rq) ==
  IF NeedsInputing(cards[l.card])
    THEN /\ loc' = [loc EXCEPT ![p] = l]
         /\ stack' = [stack EXCEPT ![p] = <<"s_inputing">> \o frames]
         /\ reqs' = [reqs EXCEPT ![p] = Append(rq, Req("INPUTING", <<>>))]
    ELSE StreamSendContent(p, l, frames, rq)

\* streamAICard(card, content, finished) called by process p with locals l and
\* caller frames `frames`: runs up to its first await
EnterStreamAICard(p, c, content, finished, l, frames, rq) ==
  LET l2 == [l EXCEPT !.card = c, !.content = content, !.finished = finished,
                      !.body = <<>>, !.guids = 0, !.preState = cards[c].state] IN
  IF TokenIsOld(cards[c], now)
    THEN /\ loc' = [loc EXCEPT ![p] = l2]
         /\ stack' = [stack EXCEPT ![p] = <<"s_refresh">> \o frames]
         /\ reqs' = [reqs EXCEPT ![p] = Append(rq, Req("TOKEN", <<>>))]
    ELSE StreamCheckInputing(p, l2, frames, rq)

\* the pre-emptive getAccessToken settled (its failure is only logged)
StreamRefreshResp(p, ok) ==
  /\ At(p, "s_refresh")
  /\ StreamCheckInputing(p, loc[p], Tail(stack[p]),
                         SetResp(reqs[p], IF ok THEN "ok" ELSE "err"))
  /\ UNCHANGED <<now, ticks, serial, cacheVars, inputingOk, res>>
  /\ UNCHANGED <<sessVars, dedupVars, postVars, utilVars>>

\* the INPUTING status request settled
StreamInputingResp(p, ok) ==
  /\ At(p, "s_inputing")
  /\ IF ok
       THEN /\ cards' = [cards EXCEPT ![loc[p].card].inputingStarted = TRUE]
            /\ inputingOk' = [inputingOk EXCEPT ![loc[p].card] = @ + 1]
            /\ StreamSendContent(p, loc[p], Tail(stack[p]), SetResp(reqs[p], "ok"))
            /\ res' = res
       ELSE /\ stack' = [stack EXCEPT ![p] = Tail(@)]
            /\ res' = [res EXCEPT ![p] = Thrown("streamAICard")]
            /\ reqs' = [reqs EXCEPT ![p] = SetResp(@, "err")]
            /\ UNCHANGED <<cards, inputingOk, loc>>
  /\ UNCHANGED <<now, ticks, serial, nextCardId, cardInstances, activeCardsByTarget>>
  /\ UNCHANGED <<sessVars, dedupVars, postVars, utilVars>>

\* streamAICard returns normally after a successful content-replace request
StreamSucceed(p) ==
  /\ cards' = [cards EXCEPT ![loc[p].card] = PushSucceeded(@, loc[p].finished, now)]
  /\ stack' = [stack EXCEPT ![p] = Tail(@)]
  /\ res' = [res EXCEPT ![p] = Ret("streamAICard", 0)]

\* streamAICard marks the card FAILED and rethrows
StreamFail(p) ==
  /\ cards' = [cards EXCEPT ![loc[p].card] = PushFailed(@, now)]
  /\ stack' = [stack EXCEPT ![p] = Tail(@)]
  /\ res' = [res EXCEPT ![p] = Thrown("streamAICard")]

\* the content-replace request settled
StreamContentResp(p, r) ==
  /\ At(p, "s_content")
  /\ IF r = "ok"
       THEN /\ StreamSucceed(p)
            /\ reqs' = [reqs EXCEPT ![p] = SetResp(@, r)]
       ELSE IF Is401(r)
         THEN /\ stack' = [stack EXCEPT ![p] = <<"s_token">> \o Tail(@)]
              /\ reqs' = [reqs EXCEPT ![p] = Append(SetResp(@, r), Req("TOKEN", <<>>))]
              /\ UNCHANGED <<cards, res>>
         ELSE /\ StreamFail(p)
              /\ reqs' = [reqs EXCEPT ![p] = SetResp(@, r)]
  /\ UNCHANGED <<now, ticks, serial, nextCardId, cardInstances, activeCardsByTarget,
                 inputingOk, loc>>
  /\ UNCHANGED <<sessVars, dedupVars, postVars, utilVars>>

\* getAccessToken after the 401 settled
StreamTokenResp(p, ok) ==
  /\ At(p, "s_token")
  /\ IF ok
       THEN /\ stack' = [stack EXCEPT ![p] = <<"s_retry">> \o Tail(@)]
            /\ reqs' = [reqs EXCEPT ![p] =
                          Append(SetResp(@, "ok"), Req("PUT", RetryBody(loc[p])))]
            /\ UNCHANGED <<cards, res>>
       ELSE /\ StreamFail(p)
            /\ reqs' = [reqs EXCEPT ![p] = SetResp(@, "err")]
  /\ UNCHANGED <<now, ticks, serial, nextCardId, cardInstances, activeCardsByTarget,
                 inputingOk, loc>>
  /\ UNCHANGED <<sessVars, dedupVars, postVars, utilVars>>

\* the retried content-replace request settled
StreamRetryResp(p, ok) ==
  /\ At(p, "s_retry")
  /\ IF ok THEN StreamSucceed(p) ELSE StreamFail(p)
  /\ reqs' = [reqs EXCEPT ![p] = SetResp(@, IF ok THEN "ok" ELSE "err")]
  /\ UNCHANGED <<now, ticks, serial, nextCardId, cardInstances, activeCardsByTarget,
                 inputingOk, loc>>
  /\ UNCHANGED <<sessVars, dedupVars, postVars, utilVars>>

----------------------------------------------------------------------------
(* finishAICard *)

\* finishAICard(card, content): calls streamAICard(card, content, true)
EnterFinishAICard(p, c, content, l, frames, rq) ==
  EnterStreamAICard(p, c, content, TRUE, l, <<"f_stream">> \o frames, rq)

\* the trailing status update fails the call
FinishStatusFailsMutThrow(ok) == ~ok
FinishStatusFails(ok) == FALSE

\* finishAICard: the finalize push settled
FinishAfterStream(p) ==
  /\ Resumed(p, "f_stream", "streamAICard")
  /\ IF res[p].kind = "throw"
       THEN /\ stack' = [stack EXCEPT ![p] = Tail(@)]
            /\ res' = [res EXCEPT ![p] = Thrown("finishAICard")]
            /\ reqs' = reqs
       ELSE /\ stack' = [stack EXCEPT ![p] = <<"f_status">> \o Tail(@)]
            /\ res' = [res EXCEPT ![p] = NoRes]
            /\ reqs' = [reqs EXCEPT ![p] = Append(@, Req("FINISHED", <<loc[p].content>>))]
  /\ UNCHANGED <<now, ticks, serial, cacheVars, inputingOk, loc>>
  /\ UNCHANGED <<sessVars, dedupVars, postVars, utilVars>>

\* finishAICard: the FINISHED status request settled
FinishStatusResp(p, ok) ==
  /\ At(p, "f_status")
  /\ stack' = [stack EXCEPT ![p] = Tail(@)]
  /\ res' = [res EXCEPT ![p] = IF FinishStatusFails(ok) THEN Thrown("finishAICard")
                                ELSE Ret("finishAICard", 0)]
  /\ reqs' = [reqs EXCEPT ![p] = SetResp(@, IF ok THEN "ok" ELSE "err")]
  /\ UNCHANGED <<now, ticks, serial, cacheVars, inputingOk, loc>>
  /\ UNCHANGED <<sessVars, dedupVars, postVars, utilVars>>

----------------------------------------------------------------------------
(* Message handler: handleDingTalkMessage routed to handleWithCardMode, with *)
(* the default configuration (messageType card, showThinking and            *)
(* enableMediaUpload not disabled)                                          *)

\* the stream callback starts handling a message for target t: the handler
\* sweeps the card cache, then handleWithCardMode calls getOrCreateCard
HandleStart(p, t) ==
  /\ Idle(p) /\ NoPending /\ CanStart(p)
  /\ EnterGetOrCreateCard(p, t, [NoLoc EXCEPT !.mode = "card"], <<"h_card">>,
                          CleanedInstances(cardInstances, cards, now),
                          CleanedActive(activeCardsByTarget, cardInstances, cards, now))
  /\ UNCHANGED <<now, ticks, serial, cards, nextCardId, inputingOk>>
  /\ UNCHANGED <<sessVars, dedupVars, postVars, utilVars>>

\* handleWithCardMode: getOrCreateCard settled
HandleAfterCard(p) ==
  /\ Resumed(p, "h_card", "getOrCreateCard")
  /\ IF res[p].kind = "throw"
       THEN /\ stack' = [stack EXCEPT ![p] = Tail(@)]
            /\ res' = [res EXCEPT ![p] = Thrown("handleDingTalkMessage")]
            /\ loc' = loc
       ELSE /\ res' = [res EXCEPT ![p] = NoRes]
            /\ IF res[p].val = NoCard
                 THEN /\ stack' = [stack EXCEPT ![p] = <<"k_think">> \o Tail(@)]
                      /\ loc' = [loc EXCEPT ![p].mode = "sdk"]
                 ELSE /\ stack' = [stack EXCEPT ![p] = <<"h_oapi">> \o Tail(@)]
                      /\ loc' = [loc EXCEPT ![p].card = res[p].val]
  /\ UNCHANGED <<now, ticks, serial, cacheVars, inputingOk, reqs>>
  /\ UNCHANGED <<sessVars, dedupVars, postVars, utilVars>>

\* handleWithCardMode: getOapiAccessToken settled, the gateway request is sent
HandleOapiResp(p) ==
  /\ At(p, "h_oapi")
  /\ stack' = [stack EXCEPT ![p] = <<"h_chunk">> \o Tail(@)]
  /\ loc' = [loc EXCEPT ![p].streams = @ + 1]
  /\ UNCHANGED <<now, ticks, serial, cacheVars, inputingOk, res, reqs>>
  /\ UNCHANGED <<sessVars, dedupVars, postVars, utilVars>>

\* the throttle lets the chunk through
ThrottleOpenMutEarly(t, lastUpdateTime) == t - lastUpdateTime >= updateInterval - 1
ThrottleOpen(t, lastUpdateTime) == t - lastUpdateTime >= updateInterval

\* handleWithCardMode: the catch block appends the interruption notice and
\* calls finishAICard once more
HandleCatch(p, l, frames) ==
  EnterFinishAICard(p, l.card, <<"interrupted", l.acc>>, [l EXCEPT !.notice = TRUE],
                    <<"h_catch_finish">> \o frames, <<>>)

\* handleWithCardMode: the gateway stream yields a chunk, ends or fails
HandleChunk(p, ev) ==
  /\ At(p, "h_chunk")
  /\ \/ /\ ev = "chunk"
        /\ loc[p].acc < MaxChunks
        /\ LET l == [loc[p] EXCEPT !.acc = @ + 1, !.chunkNow = now] IN
           IF ThrottleOpen(now, l.lastUpdateTime)
             THEN EnterStreamAICard(p, l.card, <<"partial", l.acc>>, FALSE, l,
                                    <<"h_push">> \o Tail(stack[p]), <<>>)
             ELSE /\ loc' = [loc EXCEPT ![p] = l]
                  /\ UNCHANGED <<stack, reqs>>
     \/ /\ ev = "done"
        /\ stack' = [stack EXCEPT ![p] = <<"h_post">> \o Tail(@)]
        /\ UNCHANGED <<loc, reqs>>
     \/ /\ ev = "error"
        /\ HandleCatch(p, loc[p], Tail(stack[p]))
  /\ UNCHANGED <<now, ticks, serial, cacheVars, inputingOk, res>>
  /\ UNCHANGED <<sessVars, dedupVars, postVars, utilVars>>

\* handleWithCardMode: the streaming push settled
HandleAfterPush(p) ==
  /\ Resumed(p, "h_push", "streamAICard")
  /\ res' = [res EXCEPT ![p] = NoRes]
  /\ IF res[p].kind = "throw"
       THEN HandleCatch(p, loc[p], Tail(stack[p]))
       ELSE /\ loc' = [loc EXCEPT ![p].lastUpdateTime = loc[p].chunkNow]
            /\ stack' = [stack EXCEPT ![p] = <<"h_chunk">> \o Tail(@)]
            /\ reqs' = reqs
  /\ UNCHANGED <<now, ticks, serial, cacheVars, inputingOk>>
  /\ UNCHANGED <<sessVars, dedupVars, postVars, utilVars>>

\* handleWithCardMode: processPostPipeline settled
HandlePostResp(p, ok) ==
  /\ At(p, "h_post")
  /\ IF ok
       THEN EnterFinishAICard(p, loc[p].card, <<"final", loc[p].acc>>, loc[p],
                              <<"h_finish">> \o Tail(stack[p]), <<>>)
       ELSE HandleCatch(p, loc[p], Tail(stack[p]))
  /\ UNCHANGED <<now, ticks, serial, cacheVars, inputingOk, res>>
  /\ UNCHANGED <<sessVars, dedupVars, postVars, utilVars>>

\* handleWithCardMode: finishAICard of the try block settled
HandleAfterFinish(p) ==
  /\ Resumed(p, "h_finish", "finishAICard")
  /\ IF res[p].kind = "throw"
       THEN /\ res' = [res EXCEPT ![p] = NoRes]
            /\ HandleCatch(p, loc[p], Tail(stack[p]))
       ELSE /\ res' = [res EXCEPT ![p] = Ret("handleDingTalkMessage", loc[p].card)]
            /\ stack' = [stack EXCEPT ![p] = Tail(@)]
            /\ UNCHANGED <<loc, reqs>>
  /\ UNCHANGED <<now, ticks, serial, cacheVars, inputingOk>>
  /\ UNCHANGED <<sessVars, dedupVars, postVars, utilVars>>

\* handleWithCardMode: finishAICard of the catch block settled; its failure
\* is only logged
HandleAfterCatchFinish(p) ==
  /\ Resumed(p, "h_catch_finish", "finishAICard")
  /\ res' = [res EXCEPT ![p] = Ret("handleDingTalkMessage", loc[p].card)]
  /\ stack' = [stack EXCEPT ![p] = Tail(@)]
  /\ UNCHANGED <<now, ticks, serial, cacheVars, inputingOk, loc, reqs>>
  /\ UNCHANGED <<sessVars, dedupVars, postVars, utilVars>>

----------------------------------------------------------------------------
(* handleWithSDKMode, entered when no card could be obtained *)

\* sendThinkingIndicator settled (its failure is only logged)
SdkThinkResp(p, ok) ==
  /\ At(p, "k_think")
  /\ stack' = [stack EXCEPT ![p] = <<"k_oapi">> \o Tail(@)]
  /\ loc' = [loc EXCEPT ![p].sent = Append(@, <<"thinking", ok>>)]
  /\ UNCHANGED <<now, ticks, serial, cacheVars, inputingOk, res, reqs>>
  /\ UNCHANGED <<sessVars, dedupVars, postVars, utilVars>>

\* getOapiAccessToken settled, the gateway request is sent
SdkOapiResp(p, token) ==
  /\ At(p, "k_oapi")
  /\ stack' = [stack EXCEPT ![p] = <<"k_chunk">> \o Tail(@)]
  /\ loc' = [loc EXCEPT ![p].streams = @ + 1, ![p].token = token]
  /\ UNCHANGED <<now, ticks, serial, cacheVars, inputingOk, res, reqs>>
  /\ UNCHANGED <<sessVars, dedupVars, postVars, utilVars>>

\* the gateway stream yields a chunk, ends or fails
SdkChunk(p, ev) ==
  /\ At(p, "k_chunk")
  /\ \/ /\ ev = "chunk"
        /\ loc[p].acc < MaxChunks
        /\ loc' = [loc EXCEPT ![p].acc = @ + 1]
        /\ stack' = stack
     \/ /\ ev = "done"
        /\ stack' = [stack EXCEPT ![p] = <<"k_post">> \o Tail(@)]
        /\ loc' = loc
     \/ /\ ev = "error"
        /\ stack' = [stack EXCEPT ![p] = <<"k_errsend">> \o Tail(@)]
        /\ loc' = [loc EXCEPT ![p].outcome = "failed"]
  /\ UNCHANGED <<now, ticks, serial, cacheVars, inputingOk, res, reqs>>
  /\ UNCHANGED <<sessVars, dedupVars, postVars, utilVars>>

\* processPostPipeline settled: the reply, or the error notice, is sent
SdkPostResp(p, ok) ==
  /\ At(p, "k_post")
  /\ stack' = [stack EXCEPT ![p] = <<IF ok THEN "k_send" ELSE "k_errsend">> \o Tail(@)]
  /\ loc' = [loc EXCEPT ![p].outcome = IF ok THEN "completed" ELSE "failed"]
  /\ UNCHANGED <<now, ticks, serial, cacheVars, inputingOk, res, reqs>>
  /\ UNCHANGED <<sessVars, dedupVars, postVars, utilVars>>

SdkSendRespMutTwice(p, ok) ==
  /\ \/ At(p, "k_send")
     \/ At(p, "k_errsend")
  /\ loc' = [loc EXCEPT ![p].sent = @ \o <<<<"reply", ok>>, <<"reply", ok>>>>]
  /\ stack' = [stack EXCEPT ![p] = Tail(@)]
  /\ res' = [res EXCEPT ![p] = Ret("handleDingTalkMessage", NoCard)]
  /\ UNCHANGED <<now, ticks, serial, cacheVars, inputingOk, reqs>>
  /\ UNCHANGED <<sessVars, dedupVars, postVars, utilVars>>
\* sendMessage settled (it reports a failure as ok: false, it never throws)
SdkSendResp(p, ok) ==
  /\ \/ At(p, "k_send") /\ loc' = [loc EXCEPT ![p].sent = Append(@, <<"reply", ok>>)]
     \/ At(p, "k_errsend") /\ loc' = [loc EXCEPT ![p].sent = Append(@, <<"notice", ok>>)]
  /\ stack' = [stack EXCEPT ![p] = Tail(@)]
  /\ res' = [res EXCEPT ![p] = Ret("handleDingTalkMessage", NoCard)]
  /\ UNCHANGED <<now, ticks, serial, cacheVars, inputingOk, reqs>>
  /\ UNCHANGED <<sessVars, dedupVars, postVars, utilVars>>

----------------------------------------------------------------------------
(* API callers *)

\* a caller invokes getOrCreateCard(target)
CallGetOrCreateCard(p, t) ==
  /\ Idle(p) /\ NoPending /\ CanStart(p)
  /\ EnterGetOrCreateCard(p, t, [NoLoc EXCEPT !.mode = "api"], <<>>,
                          cardInstances, activeCardsByTarget)
  /\ UNCHANGED <<now, ticks, serial, cards, nextCardId, inputingOk>>
  /\ UNCHANGED <<sessVars, dedupVars, postVars, utilVars>>

\* the card instances a caller can hold a reference to
Created == {c \in CardIds : cards[c] # NoCardObj}

\* a caller invokes streamAICard(card, content, finished)
CallStreamAICard(p, c, finished) ==
  /\ Idle(p) /\ NoPending /\ CanStart(p)
  /\ c \in Created
  /\ EnterStreamAICard(p, c, <<"api", 0>>, finished,
                       [NoLoc EXCEPT !.mode = "api", !.target = cards[c].target],
                       <<>>, <<>>)
  /\ UNCHANGED <<now, ticks, serial, cacheVars, inputingOk, res>>
  /\ UNCHANGED <<sessVars, dedupVars, postVars, utilVars>>

\* a caller invokes finishAICard(card, content)
CallFinishAICard(p, c) ==
  /\ Idle(p) /\ NoPending /\ CanStart(p)
  /\ c \in Created
  /\ EnterFinishAICard(p, c, <<"api", 0>>,
                       [NoLoc EXCEPT !.mode = "api", !.target = cards[c].target],
                       <<>>, <<>>)
  /\ UNCHANGED <<now, ticks, serial, cacheVars, inputingOk, res>>
  /\ UNCHANGED <<sessVars, dedupVars, postVars, utilVars>>

\* the caller observes the result of its call
CallerReturn(p) ==
  /\ stack[p] = <<>> /\ res[p] # NoRes
  /\ res' = [res EXCEPT ![p] = NoRes]
  /\ loc' = [loc EXCEPT ![p] = NoLoc]
  /\ reqs' = [reqs EXCEPT ![p] = <<>>]
  /\ UNCHANGED <<now, ticks, serial, cards, nextCardId, cardInstances,
                 activeCardsByTarget, inputingOk, stack>>
  /\ UNCHANGED <<sessVars, dedupVars, postVars, utilVars>>

\* the clock advances by d milliseconds
Advance(d) ==
  /\ NoPending
  /\ ticks < MaxTicks
  /\ ticks' = ticks + 1
  /\ now' = now + d
  /\ UNCHANGED <<serial, cards, nextCardId, cardInstances, activeCardsByTarget,
                 inputingOk, stack, res, loc, reqs>>
  /\ UNCHANGED <<sessVars, dedupVars, postVars, utilVars>>

Next ==
  \/ \E p \in Procs, t \in Targets : CallGetOrCreateCard(p, t)
  \/ \E p \in Procs, ok \in BOOLEAN : CreateTokenResp(p, ok)
  \/ \E p \in Procs, ok \in BOOLEAN : CreatePostResp(p, ok)
  \/ \E p \in Procs : CreateRetry(p)
  \/ \E p \in Procs : GocAfterCreate(p)
  \/ \E p \in Procs, c \in CardIds, f \in BOOLEAN : CallStreamAICard(p, c, f)
  \/ \E p \in Procs, c \in CardIds : CallFinishAICard(p, c)
  \/ \E p \in Procs, ok \in BOOLEAN : StreamRefreshResp(p, ok)
  \/ \E p \in Procs, ok \in BOOLEAN : StreamInputingResp(p, ok)
  \/ \E p \in Procs, r \in {"ok", "401", "err"} : StreamContentResp(p, r)
  \/ \E p \in Procs, ok \in BOOLEAN : StreamTokenResp(p, ok)
  \/ \E p \in Procs, ok \in BOOLEAN : StreamRetryResp(p, ok)
  \/ \E p \in Procs : FinishAfterStream(p)
  \/ \E p \in Procs, ok \in BOOLEAN : FinishStatusResp(p, ok)
  \/ \E p \in Procs, t \in Targets : HandleStart(p, t)
  \/ \E p \in Procs : HandleAfterCard(p)
  \/ \E p \in Procs : HandleOapiResp(p)
  \/ \E p \in Procs, ev \in {"chunk", "done", "error"} : HandleChunk(p, ev)
  \/ \E p \in Procs : HandleAfterPush(p)
  \/ \E p \in Procs, ok \in BOOLEAN : HandlePostResp(p, ok)
  \/ \E p \in Procs : HandleAfterFinish(p)
  \/ \E p \in Procs : HandleAfterCatchFinish(p)
  \/ \E p \in Procs, ok \in BOOLEAN : SdkThinkResp(p, ok)
  \/ \E p \in Procs, token \in BOOLEAN : SdkOapiResp(p, token)
  \/ \E p \in Procs, ev \in {"chunk", "done", "error"} : SdkChunk(p, ev)
  \/ \E p \in Procs, ok \in BOOLEAN : SdkPostResp(p, ok)
  \/ \E p \in Procs, ok \in BOOLEAN : SdkSendResp(p, ok)
  \/ \E p \in Procs : CallerReturn(p)
  \/ CleanupCardCache
  \/ \E d \in Delays : Advance(d)

Spec == Init /\ [][Next]_vars

\* message handlers in card mode that overlap, in a run where every request
\* succeeds and the gateway stream ends normally
ConcurrentNext ==
  \/ \E p \in Procs, t \in Targets : HandleStart(p, t)
  \/ \E p \in Procs : CreateTokenResp(p, TRUE)
  \/ \E p \in Procs : CreatePostResp(p, TRUE)
  \/ \E p \in Procs : GocAfterCreate(p)
  \/ \E p \in Procs : HandleAfterCard(p)
  \/ \E p \in Procs : HandleOapiResp(p)
  \/ \E p \in Procs, ev \in {"chunk", "done"} : HandleChunk(p, ev)
  \/ \E p \in Procs : StreamInputingResp(p, TRUE)
  \/ \E p \in Procs : StreamContentResp(p, "ok")
  \/ \E p \in Procs : HandleAfterPush(p)
  \/ \E p \in Procs : HandlePostResp(p, TRUE)
  \/ \E p \in Procs : FinishAfterStream(p)
  \/ \E p \in Procs : FinishStatusResp(p, TRUE)
  \/ \E p \in Procs : HandleAfterFinish(p)
  \/ \E p \in Procs : CallerReturn(p)

SpecConcurrent == InitConcurrent /\ [][ConcurrentNext]_vars

\* the gaps between two fragments of the gateway stream: just under the
\* update interval, and the interval itself
ThrottleDelays == {updateInterval - 1, updateInterval}

\* message handlers in card mode, one after another, in a run where the card
\* is created and the fragments arrive within the update interval of each
\* other or just after it
ThrottleNext ==
  \/ \E p \in Procs, t \in Targets : HandleStart(p, t)
  \/ \E p \in Procs : CreateTokenResp(p, TRUE)
  \/ \E p \in Procs : CreatePostResp(p, TRUE)
  \/ \E p \in Procs : GocAfterCreate(p)
  \/ \E p \in Procs : HandleAfterCard(p)
  \/ \E p \in Procs : HandleOapiResp(p)
  \/ \E p \in Procs, ev \in {"chunk", "done", "error"} : HandleChunk(p, ev)
  \/ \E p \in Procs, ok \in BOOLEAN : StreamInputingResp(p, ok)
  \/ \E p \in Procs, r \in {"ok", "401", "err"} : StreamContentResp(p, r)
  \/ \E p \in Procs, ok \in BOOLEAN : StreamTokenResp(p, ok)
  \/ \E p \in Procs, ok \in BOOLEAN : StreamRetryResp(p, ok)
  \/ \E p \in Procs : HandleAfterPush(p)
  \/ \E p \in Procs, ok \in BOOLEAN : HandlePostResp(p, ok)
  \/ \E p \in Procs : FinishAfterStream(p)
  \/ \E p \in Procs, ok \in BOOLEAN : FinishStatusResp(p, ok)
  \/ \E p \in Procs : HandleAfterFinish(p)
  \/ \E p \in Procs : HandleAfterCatchFinish(p)
  \/ \E p \in Procs : CallerReturn(p)
  \/ \E d \in ThrottleDelays : Advance(d)

SpecThrottle == Init /\ [][ThrottleNext]_vars

----------------------------------------------------------------------------
(* Session manager *)

\* `dingtalk:${senderId}`
FirstSessionId(senderId) == <<"dingtalk", senderId>>

\* `dingtalk:${senderId}:${now}`
TimedSessionId(senderId, t) == <<"dingtalk", senderId, t>>

SessionExpiredMutAtTimeout(elapsed, sessionTimeout) == elapsed >= sessionTimeout

\* elapsed > sessionTimeout
SessionExpired(elapsed, sessionTimeout) == elapsed > sessionTimeout

\* the SessionContext getSessionKey returns and the UserSession it stores
SessionOutcome(senderId, forceNew, sessionTimeout, existing, t) ==
  IF forceNew
  THEN [stored |-> [lastActivity |-> t, sessionId |-> TimedSessionId(senderId, t)],
        result |-> [sessionKey |-> TimedSessionId(senderId, t), isNew |-> TRUE,
                    forceNew |-> TRUE]]
  ELSE IF existing # NoSession
  THEN IF SessionExpired(t - existing.lastActivity, sessionTimeout)
       THEN [stored |-> [lastActivity |-> t, sessionId |-> TimedSessionId(senderId, t)],
             result |-> [sessionKey |-> TimedSessionId(senderId, t), isNew |-> TRUE,
                         forceNew |-> FALSE]]
       ELSE [stored |-> [existing EXCEPT !.lastActivity = t],
             result |-> [sessionKey |-> existing.sessionId, isNew |-> FALSE,
                         forceNew |-> FALSE]]
  ELSE [stored |-> [lastActivity |-> t, sessionId |-> FirstSessionId(senderId)],
        result |-> [sessionKey |-> FirstSessionId(senderId), isNew |-> FALSE,
                    forceNew |-> FALSE]]

\* getSessionKey(senderId, forceNew, sessionTimeout): what it stores and returns
StoreSessionKey(senderId, forceNew, sessionTimeout) ==
  LET existing == userSessions[senderId]
      out == SessionOutcome(senderId, forceNew, sessionTimeout, existing, now)
  IN /\ userSessions' = [userSessions EXCEPT ![senderId] = out.stored]
     /\ returned' = [returned EXCEPT ![senderId] = out.result.sessionKey]
     /\ issued' = [issued EXCEPT ![senderId] = @ \cup {out.result.sessionKey}]
     /\ lastCall' = [sender |-> senderId, forceNew |-> forceNew,
                     timeout |-> sessionTimeout, at |-> now, existing |-> existing,
                     previous |-> returned[senderId], earlier |-> issued[senderId],
                     stored |-> out.stored,
                     result |-> out.result]

\* a call of getSessionKey on its own
getSessionKey(senderId, forceNew, sessionTimeout) ==
  /\ StoreSessionKey(senderId, forceNew, sessionTimeout)
  /\ UNCHANGED now
  /\ UNCHANGED <<cardVars, dedupVars, postVars, utilVars>>

touchSession(senderId) ==
  /\ userSessions' =
       IF userSessions[senderId] # NoSession
       THEN [userSessions EXCEPT ![senderId].lastActivity = now]
       ELSE userSessions
  /\ UNCHANGED <<now, returned, issued, lastCall>>
  /\ UNCHANGED <<cardVars, dedupVars, postVars, utilVars>>

deleteSession(senderId) ==
  /\ userSessions' = [userSessions EXCEPT ![senderId] = NoSession]
  /\ UNCHANGED <<now, returned, issued, lastCall>>
  /\ UNCHANGED <<cardVars, dedupVars, postVars, utilVars>>

clearAllSessions ==
  /\ userSessions' = [s \in Senders |-> NoSession]
  /\ UNCHANGED <<now, returned, issued, lastCall>>
  /\ UNCHANGED <<cardVars, dedupVars, postVars, utilVars>>

cleanupExpiredSessions(maxAge) ==
  /\ userSessions' =
       [s \in Senders |->
          IF userSessions[s] # NoSession /\ now - userSessions[s].lastActivity > maxAge
          THEN NoSession ELSE userSessions[s]]
  /\ UNCHANGED <<now, returned, issued, lastCall>>
  /\ UNCHANGED <<cardVars, dedupVars, postVars, utilVars>>

\* one millisecond passes
SessionTick ==
  /\ now < StartTime + MaxSessionTicks
  /\ now' = now + 1
  /\ UNCHANGED sessVars
  /\ UNCHANGED <<cardVars, dedupVars, postVars, utilVars>>

SessionNext ==
  \/ \E s \in Senders, f \in BOOLEAN, t \in SessionTimeouts : getSessionKey(s, f, t)
  \/ \E s \in Senders : touchSession(s)
  \/ \E s \in Senders : deleteSession(s)
  \/ clearAllSessions
  \/ \E a \in MaxAges : cleanupExpiredSessions(a)
  \/ SessionTick

SpecSession == Init /\ [][SessionNext]_vars

----------------------------------------------------------------------------
(* Message dedup (session manager) and the stream callback (gateway/start.ts) *)

isMessageProcessedMutMissed(pm, messageId) == FALSE

\* isMessageProcessed(messageId)
isMessageProcessed(pm, messageId) == messageId # "" /\ pm[messageId] # NoStamp

DedupExpiredMutAtTtl(t, timestamp) == t - timestamp >= MESSAGE_DEDUP_TTL

\* cleanupProcessedMessages: the entry is deleted
DedupExpired(t, timestamp) == t - timestamp > MESSAGE_DEDUP_TTL

\* cleanupProcessedMessages() at time t
SweptMessages(pm, t) ==
  [m \in MsgIds |-> IF pm[m] # NoStamp /\ DedupExpired(t, pm[m]) THEN NoStamp ELSE pm[m]]

SweptOthers(oth, t) ==
  [ts \in DedupTimes |-> IF DedupExpired(t, ts) THEN 0 ELSE oth[ts]]

RECURSIVE SumOver(_, _)
SumOver(f, S) ==
  IF S = {} THEN 0
  ELSE LET x == CHOOSE y \in S : TRUE IN f[x] + SumOver(f, S \ {x})

\* processedMessages.size
MapSize(pm, oth) ==
  Cardinality({m \in MsgIds : pm[m] # NoStamp}) + SumOver(oth, DedupTimes)

\* the sweep markMessageProcessed runs after an insertion
SweepAfterInsert(pm, oth, t) ==
  IF MapSize(pm, oth) >= SweepSize
  THEN [pm |-> SweptMessages(pm, t), oth |-> SweptOthers(oth, t), swept |-> TRUE]
  ELSE [pm |-> pm, oth |-> oth, swept |-> FALSE]

\* markMessageProcessed(messageId) at time t
markMessageProcessed(pm, oth, messageId, t) ==
  IF messageId = "" THEN [pm |-> pm, oth |-> oth, swept |-> FALSE]
  ELSE SweepAfterInsert([pm EXCEPT ![messageId] = t], oth, t)

\* the map is grown no further than one entry past the size at which the
\* sweep is triggered
DedupRoom(k) == MapSize(processedMessages, otherMessages) + k <= SweepSize + 1

\* what the callback does with a message it did not drop: JSON.parse of the
\* payload throws, or handleDingTalkMessage is invoked
CallbackOutcome(messageId) == IF messageId \in Malformed THEN "failed" ELSE "invoked"

CallbackStepsMutCheckFirst(messageId, outcome) ==
  (IF messageId # "" THEN <<"check">> ELSE <<>>)
    \o (IF outcome = "dropped" THEN <<>>
        ELSE (IF messageId # "" THEN <<"ack", "mark">> ELSE <<>>)
               \o (IF outcome = "failed" THEN <<"parse">> ELSE <<"parse", "handle">>))
\* what the callback does, in the order of its statements: the acknowledgment
\* socketCallBackResponse, the check isMessageProcessed, the mark, JSON.parse
\* of the payload and the call of handleDingTalkMessage
CallbackSteps(messageId, outcome) ==
  (IF messageId # "" THEN <<"ack", "check">> ELSE <<>>)
    \o (IF outcome = "dropped" THEN <<>>
        ELSE (IF messageId # "" THEN <<"mark">> ELSE <<>>)
               \o (IF outcome = "failed" THEN <<"parse">> ELSE <<"parse", "handle">>))

\* the stream client delivers a message with the given messageId: the callback
\* runs up to its await of handleDingTalkMessage
StreamCallback(messageId) ==
  /\ DedupRoom(1)
  /\ IF messageId # "" /\ isMessageProcessed(processedMessages, messageId)
       THEN /\ lastCallback' = [messageId |-> messageId, at |-> now,
                                previous |-> lastMarked[messageId], outcome |-> "dropped",
                                steps |-> CallbackSteps(messageId, "dropped")]
            /\ UNCHANGED <<processedMessages, otherMessages, lastMarked, lastSweep>>
       ELSE LET m == markMessageProcessed(processedMessages, otherMessages, messageId, now) IN
            /\ processedMessages' = m.pm
            /\ otherMessages' = m.oth
            /\ lastSweep' = IF m.swept THEN now ELSE lastSweep
            /\ lastMarked' = IF messageId # ""
                             THEN [lastMarked EXCEPT ![messageId] =
                                    [at |-> now, by |-> "callback",
                                     outcome |-> CallbackOutcome(messageId)]]
                             ELSE lastMarked
            /\ lastCallback' = [messageId |-> messageId, at |-> now,
                                previous |-> lastMarked[messageId],
                                outcome |-> CallbackOutcome(messageId),
                                steps |-> CallbackSteps(messageId,
                                                        CallbackOutcome(messageId))]
  /\ UNCHANGED <<now, stopped, dedupTicks>>
  /\ UNCHANGED <<cardVars, sessVars, postVars, utilVars>>

\* the numbers of messages with ids not followed that are delivered in a row:
\* they leave room for one or two more entries before the sweep is triggered
FillSizes == {SweepSize - 2, SweepSize - 1}

\* k messages with fresh ids that are not followed are delivered at the same
\* clock value; each is marked, and the last insertion may trigger the sweep
OtherCallbacks(k) ==
  /\ DedupRoom(k)
  /\ LET filled == [otherMessages EXCEPT ![now] = @ + k]
         m == SweepAfterInsert(processedMessages, filled, now) IN
     /\ processedMessages' = m.pm
     /\ otherMessages' = m.oth
     /\ lastSweep' = IF m.swept THEN now ELSE lastSweep
  /\ UNCHANGED <<now, stopped, dedupTicks, lastMarked, lastCallback>>
  /\ UNCHANGED <<cardVars, sessVars, postVars, utilVars>>

\* a direct call of markMessageProcessed(messageId)
CallMarkMessageProcessed(messageId) ==
  /\ DedupRoom(1)
  /\ LET m == markMessageProcessed(processedMessages, otherMessages, messageId, now) IN
     /\ processedMessages' = m.pm
     /\ otherMessages' = m.oth
     /\ lastSweep' = IF m.swept THEN now ELSE lastSweep
  /\ lastMarked' = [lastMarked EXCEPT ![messageId] =
                                   [at |-> now, by |-> "call", outcome |-> "none"]]
  /\ UNCHANGED <<now, stopped, dedupTicks, lastCallback>>
  /\ UNCHANGED <<cardVars, sessVars, postVars, utilVars>>

\* stop(), or the abort signal: the first of them sweeps the dedup map
StopAccount ==
  /\ ~stopped
  /\ stopped' = TRUE
  /\ processedMessages' = SweptMessages(processedMessages, now)
  /\ otherMessages' = SweptOthers(otherMessages, now)
  /\ lastSweep' = now
  /\ UNCHANGED <<now, dedupTicks, lastMarked, lastCallback>>
  /\ UNCHANGED <<cardVars, sessVars, postVars, utilVars>>

\* the clock advances by one millisecond or by the length of the dedup window
DedupTick(d) ==
  /\ dedupTicks < MaxDedupTicks
  /\ dedupTicks' = dedupTicks + 1
  /\ now' = now + d
  /\ UNCHANGED <<processedMessages, otherMessages, stopped, lastMarked, lastSweep,
                 lastCallback>>
  /\ UNCHANGED <<cardVars, sessVars, postVars, utilVars>>

DedupNext ==
  \/ \E m \in MsgIds : StreamCallback(m)
  \/ \E k \in FillSizes : OtherCallbacks(k)
  \/ \E m \in MsgIds : CallMarkMessageProcessed(m)
  \/ StopAccount
  \/ \E d \in {1, MESSAGE_DEDUP_TTL} : DedupTick(d)

SpecDedup == Init /\ [][DedupNext]_vars

----------------------------------------------------------------------------
(* handleDingTalkMessage from its entry: the checks, the new-session command *)
(* and the session of the sender                                             *)

\* data.chatbotUserId: the robot is no sender with a session
chatbotUserId == 0

\* the texts of the messages: a command, a command in another case with
\* blanks around it, and a question
Texts == {"/new", " /NEW ", "hello"}

NEW_SESSION_COMMANDS == {"/new", "/reset", "/clear"}

\* text.trim().toLowerCase()
TrimLower(text) == IF text = " /NEW " THEN "/new" ELSE text

isNewSessionCommandMutExact(text) == text \in NEW_SESSION_COMMANDS
isNewSessionCommand(text) == TrimLower(text) \in NEW_SESSION_COMMANDS

\* dingtalkConfig.sessionTimeout || 30 * 60 * 1000, sessionTimeout not being
\* configured
DefaultSessionTimeout == 30 * 60 * 1000

\* an allowFrom entry: its prefix, the user id it names ("*" and " " being the
\* wildcard and a blank entry) and whether the id is written in capitals
Entry(prefix, id, upper) == <<prefix, id, upper>>
Wildcard == <<"", "*", FALSE>>
BlankEntry == <<"", " ", FALSE>>

\* the user ids of the senders and of one more user, who sends nothing
UserIds == {"u1", "u2"}
SenderIdOf(sender) == IF sender = chatbotUserId THEN "bot" ELSE "u1"

\* the prefixes an entry is written with; /^(dingtalk|dd|ding):/i strips all
\* but the last
EntryPrefixes == {"", "dingtalk:", "DD:", "wx:"}
StrippedPrefixes == {"dingtalk:", "DD:", "dd:", "ding:"}

\* the allowFrom lists configured
AllowEntries ==
  {Entry(x, u, c) : x \in EntryPrefixes, u \in UserIds, c \in BOOLEAN}
    \cup {Wildcard, BlankEntry}
AllowLists == {<<>>} \cup {<<e>> : e \in AllowEntries}
               \cup {<<BlankEntry, Entry("", "u2", FALSE)>>, <<Entry("", "u2", FALSE), Wildcard>>}

\* String(value).trim() is empty
IsBlank(e) == e = BlankEntry

\* value.replace(/^(dingtalk|dd|ding):/i, '')
StripPrefix(e) == IF e[1] \in StrippedPrefixes THEN <<"", e[2], e[3]>> ELSE e

\* value.toLowerCase()
toLowerCase(e) == <<e[1], e[2], FALSE>>

\* utils/helpers.ts normalizeAllowFrom(list)
normalizeAllowFrom(list) ==
  LET entries == SelectSeq(list, LAMBDA e : ~IsBlank(e))
      normalized == [i \in 1..Len(SelectSeq(entries, LAMBDA e : e # Wildcard)) |->
                       StripPrefix(SelectSeq(entries, LAMBDA e : e # Wildcard)[i])]
  IN [entries |-> normalized,
      entriesLower |-> [i \in 1..Len(normalized) |-> toLowerCase(normalized[i])],
      hasWildcard |-> \E i \in 1..Len(entries) : entries[i] = Wildcard,
      hasEntries |-> Len(entries) > 0]

\* utils/helpers.ts isSenderAllowed({ allow, senderId }); senderId is the
\* entry without prefix that spells the id of the sender
isSenderAllowed(allow, senderId) ==
  IF ~allow.hasEntries THEN TRUE
  ELSE IF allow.hasWildcard THEN TRUE
  ELSE \E i \in 1..Len(allow.entriesLower) : allow.entriesLower[i] = toLowerCase(senderId)

\* checkDmPolicy(config, senderId, sessionWebhook): the sender is let through
checkDmPolicy(dmPolicy, allowFrom, senderId) ==
  IF dmPolicy = "open" THEN TRUE
  ELSE IF dmPolicy = "allowlist"
    THEN isSenderAllowed(normalizeAllowFrom(allowFrom), senderId)
    ELSE TRUE

\* the configurations of the direct-message policy
DmPolicies == {"open", "pairing", "allowlist"}
DmConfigs ==
  {[dmPolicy |-> d, allowFrom |-> a, upper |-> c] :
     d \in DmPolicies, a \in AllowLists, c \in BOOLEAN}

\* handleDingTalkMessage is called for a message of the sender in the
\* conversation of target t; dm: dmPolicy and allowFrom of the configuration,
\* from which checkDmPolicy decides whether a direct message is let through;
\* listed: groupPolicy is open or groupAllowlist holds the conversation id (the
\* handler reads neither); enabled: enableSessionCommands is not false. It
\* runs up to its first await or to its return.
HandleDingTalkMessage(p, sender, t, text, direct, dm, listed, enabled) ==
  LET cached == CleanedInstances(cardInstances, cards, now)
      active == CleanedActive(activeCardsByTarget, cardInstances, cards, now)
      admitted == checkDmPolicy(dm.dmPolicy, dm.allowFrom,
                                Entry("", SenderIdOf(sender), dm.upper))
      m == [sender |-> sender, text |-> text, direct |-> direct, admitted |-> admitted,
            listed |-> listed, enabled |-> enabled, at |-> now, dm |-> dm]
      l == [NoLoc EXCEPT !.msg = m, !.target = t, !.preNext = nextCardId]
  IN
  /\ Idle(p) /\ NoPending /\ CanStart(p)
  /\ IF sender = chatbotUserId \/ (direct /\ ~admitted)
       THEN /\ cardInstances' = cached
            /\ activeCardsByTarget' = active
            /\ loc' = [loc EXCEPT ![p] = [l EXCEPT !.mode = "ignored"]]
            /\ res' = [res EXCEPT ![p] = Ret("handleDingTalkMessage", NoCard)]
            \* checkDmPolicy sends the refusal without awaiting it
            /\ reqs' = [reqs EXCEPT ![p] = IF sender = chatbotUserId THEN <<>>
                                            ELSE <<Req("SEND", <<"refused">>)>>]
            /\ UNCHANGED <<stack, sessVars>>
       ELSE IF enabled /\ isNewSessionCommand(text)
       THEN /\ cardInstances' = cached
            /\ activeCardsByTarget' = active
            /\ StoreSessionKey(sender, TRUE, DefaultSessionTimeout)
            /\ loc' = [loc EXCEPT ![p] = [l EXCEPT !.mode = "command"]]
            /\ stack' = [stack EXCEPT ![p] = <<"h_newsession">>]
            /\ reqs' = [reqs EXCEPT ![p] = <<Req("SEND", <<"new-session">>)>>]
            /\ res' = res
       ELSE /\ StoreSessionKey(sender, FALSE, DefaultSessionTimeout)
            /\ EnterGetOrCreateCard(p, t, [l EXCEPT !.mode = "card"], <<"h_card">>,
                                    cached, active)
  /\ UNCHANGED <<now, ticks, serial, cards, nextCardId, inputingOk>>
  /\ UNCHANGED <<dedupVars, postVars, utilVars>>

\* sendMessage of the confirmation settled (it never throws): the handler
\* returns
NewSessionReplyResp(p, ok) ==
  /\ At(p, "h_newsession")
  /\ stack' = [stack EXCEPT ![p] = Tail(@)]
  /\ reqs' = [reqs EXCEPT ![p] = SetResp(@, IF ok THEN "ok" ELSE "err")]
  /\ res' = [res EXCEPT ![p] = Ret("handleDingTalkMessage", NoCard)]
  /\ UNCHANGED <<now, ticks, serial, cacheVars, inputingOk, loc>>
  /\ UNCHANGED <<sessVars, dedupVars, postVars, utilVars>>

\* the default policy, and an allowlist that names another user
CommandDms == {NoDm, [dmPolicy |-> "allowlist", allowFrom |-> <<Entry("", "u2", FALSE)>>,
                      upper |-> FALSE]}

\* messages handled one after another, in card mode; the requests of the
\* card succeed and the gateway stream ends normally
CommandNext ==
  \/ \E p \in Procs, sender \in Senders \cup {chatbotUserId}, t \in Targets,
        text \in Texts, direct \in BOOLEAN, dm \in CommandDms, listed \in BOOLEAN,
        enabled \in BOOLEAN :
       HandleDingTalkMessage(p, sender, t, text, direct, dm, listed, enabled)
  \/ \E p \in Procs, ok \in BOOLEAN : NewSessionReplyResp(p, ok)
  \/ \E p \in Procs : CreateTokenResp(p, TRUE)
  \/ \E p \in Procs : CreatePostResp(p, TRUE)
  \/ \E p \in Procs : GocAfterCreate(p)
  \/ \E p \in Procs : HandleAfterCard(p)
  \/ \E p \in Procs : HandleOapiResp(p)
  \/ \E p \in Procs, ev \in {"chunk", "done"} : HandleChunk(p, ev)
  \/ \E p \in Procs : StreamInputingResp(p, TRUE)
  \/ \E p \in Procs : StreamContentResp(p, "ok")
  \/ \E p \in Procs : HandleAfterPush(p)
  \/ \E p \in Procs : HandlePostResp(p, TRUE)
  \/ \E p \in Procs : FinishAfterStream(p)
  \/ \E p \in Procs : FinishStatusResp(p, TRUE)
  \/ \E p \in Procs : HandleAfterFinish(p)
  \/ \E p \in Procs : CallerReturn(p)
  \/ \E d \in Delays : Advance(d)

SpecCommand == Init /\ [][CommandNext]_vars

\* direct and group messages of a user under every configuration of the
\* direct-message policy, handled one after another in card mode
PolicyNext ==
  \/ \E p \in Procs, sender \in Senders, t \in Targets, direct \in BOOLEAN,
        dm \in DmConfigs :
       HandleDingTalkMessage(p, sender, t, "hello", direct, dm, TRUE, TRUE)
  \/ \E p \in Procs : CreateTokenResp(p, TRUE)
  \/ \E p \in Procs : CreatePostResp(p, TRUE)
  \/ \E p \in Procs : GocAfterCreate(p)
  \/ \E p \in Procs : HandleAfterCard(p)
  \/ \E p \in Procs : HandleOapiResp(p)
  \/ \E p \in Procs : HandleChunk(p, "done")
  \/ \E p \in Procs : HandlePostResp(p, TRUE)
  \/ \E p \in Procs : StreamInputingResp(p, TRUE)
  \/ \E p \in Procs : StreamContentResp(p, "ok")
  \/ \E p \in Procs : FinishAfterStream(p)
  \/ \E p \in Procs : FinishStatusResp(p, TRUE)
  \/ \E p \in Procs : HandleAfterFinish(p)
  \/ \E p \in Procs : CallerReturn(p)

SpecPolicy == Init /\ [][PolicyNext]_vars

----------------------------------------------------------------------------
(* Texts: a string is the sequence of its lexemes                           *)

\* the kinds of media marker
MarkerKinds == {"FILE", "VIDEO", "AUDIO"}

\* every lexeme is a tuple of four strings
Word(w) == <<"word", w, "", "">>
SP == <<"ws", " ", "", "">>
NL == <<"ws", "\n", "", "">>
\* [DINGTALK_FILE], [/DINGTALK_FILE] and the like
OpenTag(kind) == <<"open", kind, "", "">>
CloseTag(kind) == <<"close", kind, "", "">>
LBrace == <<"lbrace", "{", "", "">>
RBrace == <<"rbrace", "}", "", "">>
\* the members "path": "/tmp/<a>", "fileName": "<a>" of a JSON object
Info(a) == <<"info", a, "", "">>
\* ![alt](/tmp/<a>), a markdown image with a local path
LocalImage(a) == <<"image", a, "", "">>
\* ![alt](<media id>), what processImages puts in its place
UploadedImage(a) == <<"media", a, "", "">>
\* a status line of a pass about the artifact of the name: what happened to it
StatusLine(kind, what, name) == <<"status", kind, what, name>>

\* the local artifacts a payload may name: one that is sent, one that does
\* not exist, one above the size limit, one whose upload is refused and one
\* whose processing throws
Artifacts == {"ok", "missing", "big", "upfail", "err"}

existsMutAlways(a) == TRUE
exists(a) == a # "missing"
TooLarge(a) == a = "big"
Throws(a) == a = "err"
\* uploadMediaToDingTalk returns a media id
uploadMediaToDingTalk(a) == exists(a) /\ ~TooLarge(a) /\ a # "upfail" /\ ~Throws(a)

IsWs(lexeme) == lexeme[1] = "ws"

RECURSIVE trimStart(_)
trimStart(s) == IF s # <<>> /\ IsWs(Head(s)) THEN trimStart(Tail(s)) ELSE s

RECURSIVE trimEnd(_)
trimEnd(s) ==
  IF s # <<>> /\ IsWs(s[Len(s)]) THEN trimEnd(SubSeq(s, 1, Len(s) - 1)) ELSE s

trimMutKeep(s) == s
\* String.prototype.trim
trim(s) == trimEnd(trimStart(s))

SetMin(S) == CHOOSE x \in S : \A y \in S : x <= y

\* the index at which a match of the marker pattern of the kind that starts
\* at index i ends, 0 when there is none. braces: the pattern is
\* \[TAG\]({.*?})\[\/TAG\] and not \[TAG\].*?\[\/TAG\]; dotAll: the s flag
MatchEnd(s, i, kind, braces, dotAll) ==
  IF s[i] # OpenTag(kind) THEN 0
  ELSE LET ends == {j \in (i + 1)..Len(s) :
                      /\ s[j] = CloseTag(kind)
                      /\ braces => (j >= i + 3 /\ s[i + 1] = LBrace /\ s[j - 1] = RBrace)
                      /\ ~dotAll => \A k \in (i + 1)..(j - 1) : s[k] # NL}
       IN IF ends = {} THEN 0 ELSE SetMin(ends)

\* s.slice(i).replace(pattern, '') with the g flag
RECURSIVE ReplaceFrom(_, _, _, _, _)
ReplaceFrom(s, i, kind, braces, dotAll) ==
  IF i > Len(s) THEN <<>>
  ELSE LET j == MatchEnd(s, i, kind, braces, dotAll) IN
       IF j # 0 THEN ReplaceFrom(s, j + 1, kind, braces, dotAll)
       ELSE <<s[i]>> \o ReplaceFrom(s, i + 1, kind, braces, dotAll)

\* content.replace(pattern, '')
ReplaceMarkers(s, kind, braces, dotAll) == ReplaceFrom(s, 1, kind, braces, dotAll)

\* [...s.slice(i).matchAll(pattern)]: the captured payloads, in order
RECURSIVE MatchAllFrom(_, _, _)
MatchAllFrom(s, i, kind) ==
  IF i > Len(s) THEN <<>>
  ELSE LET j == MatchEnd(s, i, kind, TRUE, FALSE) IN
       IF j # 0 THEN <<SubSeq(s, i + 1, j - 1)>> \o MatchAllFrom(s, j + 1, kind)
       ELSE MatchAllFrom(s, i + 1, kind)

matchAll(s, kind) == MatchAllFrom(s, 1, kind)

JSONparseMutThrows(payload) == "throws"
\* JSON.parse of a captured payload: "throws", the path of the object, or
\* "" for an object without a path
JSONparse(payload) ==
  IF Len(payload) = 2 THEN ""
  ELSE IF Len(payload) = 3 /\ payload[2][1] = "info" THEN payload[2][2]
  ELSE "throws"

cleanMediaMarkersMutRaw(s) == s
\* cleanMediaMarkers(content) of the message handler
cleanMediaMarkers(s) ==
  trim(ReplaceMarkers(ReplaceMarkers(ReplaceMarkers(s, "FILE", FALSE, FALSE),
                                     "VIDEO", FALSE, FALSE),
                      "AUDIO", FALSE, FALSE))

\* the concatenation of the sequences of a sequence
RECURSIVE Flatten(_)
Flatten(ss) == IF ss = <<>> THEN <<>> ELSE Head(ss) \o Flatten(Tail(ss))

\* statusMessages.join('\n')
RECURSIVE JoinLines(_)
JoinLines(lines) ==
  IF lines = <<>> THEN <<>>
  ELSE IF Len(lines) = 1 THEN <<lines[1]>>
  ELSE <<lines[1], NL>> \o JoinLines(Tail(lines))

\* the elements of a sequence that a set holds, in order
RECURSIVE Keep(_, _)
Keep(s, S) ==
  IF s = <<>> THEN <<>>
  ELSE (IF Head(s) \in S THEN <<Head(s)>> ELSE <<>>) \o Keep(Tail(s), S)

\* the paths of the payloads that parse, in order ("" for no path)
ParsedPaths(payloads) ==
  Keep([i \in 1..Len(payloads) |-> JSONparse(payloads[i])], Artifacts \cup {""})

----------------------------------------------------------------------------
(* The passes of the post-processing pipeline                               *)

\* what a pass returns, with the uploads and sends it made
PassResult(c, st, up, sn) ==
  [content |-> c, statusMessages |-> st, uploads |-> up, sends |-> sn]

\* the status line the loop of processFileMarkers pushes for one fileInfo
FileStatus(a) ==
  IF ~exists(a) THEN StatusLine("FILE", "not-found", a)
  ELSE IF Throws(a) THEN StatusLine("FILE", "error", a)
  ELSE IF TooLarge(a) THEN StatusLine("FILE", "too-large", a)
  ELSE IF ~uploadMediaToDingTalk(a) THEN StatusLine("FILE", "upload-failed", a)
  ELSE StatusLine("FILE", "sent", a)

processFileMarkersMutNoSkip(s, token) ==
  LET cleaned == trim(ReplaceMarkers(s, "FILE", TRUE, FALSE))
      fileInfos == Keep(ParsedPaths(matchAll(s, "FILE")), Artifacts)
  IN PassResult(cleaned,
                [i \in 1..Len(fileInfos) |-> FileStatus(fileInfos[i])],
                Keep(fileInfos, {a \in Artifacts :
                                   exists(a) /\ ~Throws(a) /\ ~TooLarge(a)}),
                Keep(fileInfos, {a \in Artifacts : uploadMediaToDingTalk(a)}))
\* processFileMarkers(content, context)
processFileMarkers(s, token) ==
  LET cleaned == trim(ReplaceMarkers(s, "FILE", TRUE, FALSE))
      fileInfos == Keep(ParsedPaths(matchAll(s, "FILE")), Artifacts)
  IN IF ~token THEN PassResult(cleaned, <<>>, <<>>, <<>>)
     ELSE PassResult(cleaned,
                     [i \in 1..Len(fileInfos) |-> FileStatus(fileInfos[i])],
                     Keep(fileInfos, {a \in Artifacts :
                                        exists(a) /\ ~Throws(a) /\ ~TooLarge(a)}),
                     Keep(fileInfos, {a \in Artifacts : uploadMediaToDingTalk(a)}))

\* the status line the loop of processVideoMarkers or processAudioMarkers
\* pushes for one info whose artifact exists
MediaStatus(kind, a) ==
  IF Throws(a) THEN StatusLine(kind, "error", a)
  ELSE IF ~uploadMediaToDingTalk(a) THEN StatusLine(kind, "upload-failed", a)
  ELSE StatusLine(kind, "sent", a)

\* the status line for a payload whose path is missing or names no file
InvalidStatus(kind, path) ==
  StatusLine(kind, "not-found", IF path = "" THEN "unknown" ELSE path)

\* processVideoMarkers(content, context), and processAudioMarkers, which
\* differs in the tag, the media type and the absence of a thumbnail
ProcessMediaMarkers(kind, s, token) ==
  LET cleaned == trim(ReplaceMarkers(s, kind, TRUE, FALSE))
      paths == ParsedPaths(matchAll(s, kind))
      infos == Keep(paths, {a \in Artifacts : exists(a)})
      invalid == Keep(paths, {a \in Artifacts \cup {""} : a = "" \/ ~exists(a)})
  IN IF ~token THEN PassResult(cleaned, <<>>, <<>>, <<>>)
     ELSE PassResult(cleaned,
                     [i \in 1..Len(invalid) |-> InvalidStatus(kind, invalid[i])]
                       \o [i \in 1..Len(infos) |-> MediaStatus(kind, infos[i])],
                     Keep(infos, {a \in Artifacts : ~Throws(a)}),
                     Keep(infos, {a \in Artifacts : uploadMediaToDingTalk(a)}))

processVideoMarkers(s, token) == ProcessMediaMarkers("VIDEO", s, token)

processAudioMarkers(s, token) == ProcessMediaMarkers("AUDIO", s, token)

\* processImages(content, oapiToken, log): the images whose upload yields a
\* media id are rewritten
processImages(s) ==
  [i \in 1..Len(s) |->
     IF s[i][1] = "image" /\ uploadMediaToDingTalk(s[i][2])
     THEN UploadedImage(s[i][2]) ELSE s[i]]

\* the local images processImages uploads
ImageUploads(s) == Keep([i \in 1..Len(s) |-> IF s[i][1] = "image" THEN s[i][2] ELSE ""],
                        Artifacts)

\* processPostPipeline: the merge of the status lines into the content
MergeStatus(processed, statuses) ==
  IF statuses # <<>>
  THEN IF processed # <<>> THEN processed \o <<NL, NL>> \o JoinLines(statuses)
       ELSE JoinLines(statuses)
  ELSE processed

\* processPostPipeline(content, context).content
processPostPipeline(s, token) ==
  LET imaged == IF token THEN processImages(s) ELSE s
      videoResult == processVideoMarkers(imaged, token)
      audioResult == processAudioMarkers(videoResult.content, token)
      fileResult == processFileMarkers(audioResult.content, token)
  IN MergeStatus(fileResult.content,
                 videoResult.statusMessages \o audioResult.statusMessages
                   \o fileResult.statusMessages)

\* the fragments the gateway stream yields before the sentinel
GatewayStream == <<<<Word("hello"), SP>>, <<Word("world")>>>>

\* accumulated after n fragments
Accumulated(n) == Flatten(SubSeq(GatewayStream, 1, n))

\* the text handleWithCardMode passes to streamAICard or finishAICard after n
\* fragments: displayContent for a streaming push, finalContent at the end
CardText(kind, n, token) ==
  IF kind = "partial" THEN cleanMediaMarkers(Accumulated(n))
  ELSE LET final == trim(processPostPipeline(Accumulated(n), token))
       IN IF final = <<>> THEN <<Word("done")>> ELSE final

\* '（无响应）'
NoResponse == <<Word("no-response")>>

\* the text handleWithSDKMode passes to sendMessage after n fragments:
\* processResult.content || '（无响应）'
SdkTextMutNoPlaceholder(n, token) == processPostPipeline(Accumulated(n), token)
SdkText(n, token) ==
  LET content == processPostPipeline(Accumulated(n), token)
  IN IF content = <<>> THEN NoResponse ELSE content

----------------------------------------------------------------------------
(* processPostPipeline, one pass at a time                                  *)

\* a marker of the kind around the payload
Marker(kind, payload) == <<OpenTag(kind)>> \o payload \o <<CloseTag(kind)>>

\* the payloads of the markers handed to the pipeline: a JSON object that
\* names an artifact, a brace-delimited payload that is not JSON, the empty
\* object, an object written on two lines and a payload without braces
Payloads ==
  {<<LBrace, Info(a), RBrace>> : a \in Artifacts}
    \cup {<<LBrace, Word("oops"), RBrace>>, <<LBrace, RBrace>>,
          <<LBrace, NL, Info("ok"), RBrace>>, <<Word("oops")>>}

\* the pieces the texts handed to the pipeline are made of
Segments ==
  {<<Word("hello")>>, <<SP>>, <<NL>>, <<LocalImage("ok")>>, <<LocalImage("upfail")>>}
    \cup {Marker(k, p) : k \in MarkerKinds, p \in Payloads}

\* the texts of at most MaxSegments pieces
PostInputs ==
  {Flatten(ss) : ss \in UNION {[1..n -> Segments] : n \in 0..MaxSegments}}

NoPass == [kind |-> "none", before |-> <<>>, token |-> FALSE,
           result |-> PassResult(<<>>, <<>>, <<>>, <<>>)]

\* processPostPipeline(content, context) is called; oapiToken is the upload
\* credential of the context
CallProcessPostPipeline(s, token) ==
  /\ pipeStage = "idle"
  /\ pipeRuns = 0
  /\ pipeRuns' = 1
  /\ pipeInput' = s
  /\ prevInput' = <<>>
  /\ oapiToken' = token
  /\ processedContent' = s
  /\ statusMessages' = <<>>
  /\ pipeCalls' = <<>>
  /\ lastPass' = NoPass
  /\ pipeStage' = "images"
  /\ UNCHANGED now
  /\ UNCHANGED <<cardVars, sessVars, dedupVars, utilVars>>

\* processPostPipeline is called on the content it returned
CallOnOwnOutput ==
  /\ pipeStage = "done"
  /\ pipeRuns < MaxRuns
  /\ pipeRuns' = pipeRuns + 1
  /\ pipeInput' = processedContent
  /\ prevInput' = pipeInput
  /\ processedContent' = processedContent
  /\ statusMessages' = <<>>
  /\ pipeCalls' = <<>>
  /\ lastPass' = NoPass
  /\ pipeStage' = "images"
  /\ UNCHANGED <<now, oapiToken>>
  /\ UNCHANGED <<cardVars, sessVars, dedupVars, utilVars>>

\* 1. processImages, with an upload credential only
PipeImages ==
  /\ pipeStage = "images"
  /\ pipeStage' = "video"
  /\ IF oapiToken
       THEN /\ processedContent' = processImages(processedContent)
            /\ pipeCalls' = pipeCalls \o ImageUploads(processedContent)
       ELSE UNCHANGED <<processedContent, pipeCalls>>
  /\ UNCHANGED <<now, pipeInput, prevInput, oapiToken, statusMessages, lastPass, pipeRuns>>
  /\ UNCHANGED <<cardVars, sessVars, dedupVars, utilVars>>

\* a marker pass of the pipeline has returned the result
PipePass(kind, result, next) ==
  /\ processedContent' = result.content
  /\ statusMessages' = statusMessages \o result.statusMessages
  /\ pipeCalls' = pipeCalls \o result.uploads \o result.sends
  /\ lastPass' = [kind |-> kind, before |-> processedContent, token |-> oapiToken,
                  result |-> result]
  /\ pipeStage' = next
  /\ UNCHANGED <<now, pipeInput, prevInput, oapiToken, pipeRuns>>
  /\ UNCHANGED <<cardVars, sessVars, dedupVars, utilVars>>

\* 2. processVideoMarkers
PipeVideo ==
  /\ pipeStage = "video"
  /\ PipePass("VIDEO", processVideoMarkers(processedContent, oapiToken), "audio")

\* 3. processAudioMarkers
PipeAudio ==
  /\ pipeStage = "audio"
  /\ PipePass("AUDIO", processAudioMarkers(processedContent, oapiToken), "file")

\* 4. processFileMarkers
PipeFile ==
  /\ pipeStage = "file"
  /\ PipePass("FILE", processFileMarkers(processedContent, oapiToken), "merge")

\* the status lines are merged into the content and the result is returned
PipeReturn ==
  /\ pipeStage = "merge"
  /\ pipeStage' = "done"
  /\ processedContent' = MergeStatus(processedContent, statusMessages)
  /\ UNCHANGED <<now, pipeInput, prevInput, oapiToken, statusMessages, pipeCalls, lastPass,
                 pipeRuns>>
  /\ UNCHANGED <<cardVars, sessVars, dedupVars, utilVars>>

PostNext ==
  \/ \E s \in PostInputs, token \in BOOLEAN : CallProcessPostPipeline(s, token)
  \/ CallOnOwnOutput
  \/ PipeImages
  \/ PipeVideo
  \/ PipeAudio
  \/ PipeFile
  \/ PipeReturn

SpecPost == Init /\ [][PostNext]_vars

----------------------------------------------------------------------------
(* handleWithCardMode: the content strings it hands to the card              *)

\* `\n\n⚠️ 响应中断: ${error.message}`
InterruptionNotice == <<NL, NL, Word("interrupted")>>

\* '✅ 处理完成'
DonePlaceholder == <<Word("done")>>

\* processResult.content.trim() || '✅ 处理完成'
finalContent(s, token) ==
  LET final == trim(processPostPipeline(s, token))
  IN IF final = <<>> THEN DonePlaceholder ELSE final

\* the card was obtained and the gateway stream is opened
DisplayStart ==
  /\ display.state = "idle"
  /\ display' = [NoDisplay EXCEPT !.state = "streaming"]
  /\ UNCHANGED now
  /\ UNCHANGED displayFrame

\* the stream yields a fragment: accumulated += chunk, and when the throttle
\* is open streamAICard(card, cleanMediaMarkers(accumulated), false)
DisplayChunk(chunk, open) ==
  /\ display.state = "streaming"
  /\ display.fragments < MaxSegments
  /\ LET accumulated == display.accumulated \o chunk IN
     display' = IF open
       THEN [display EXCEPT !.accumulated = accumulated, !.fragments = @ + 1,
                            !.call = "streamAICard",
                            !.content = cleanMediaMarkers(accumulated)]
       ELSE [display EXCEPT !.accumulated = accumulated, !.fragments = @ + 1]
  /\ UNCHANGED now
  /\ UNCHANGED displayFrame

\* the stream ended and processPostPipeline returned:
\* finishAICard(card, finalContent)
DisplayFinish(token) ==
  /\ display.state = "streaming"
  /\ display' = [display EXCEPT !.state = "finished", !.call = "finishAICard",
                                !.content = finalContent(display.accumulated, token)]
  /\ UNCHANGED now
  /\ UNCHANGED displayFrame

\* the stream, a push, the pipeline or the finish raised: the catch block
\* appends the notice to accumulated and calls finishAICard(card, accumulated)
DisplayCatch ==
  /\ display.state \in {"streaming", "finished"}
  /\ display' = [display EXCEPT !.state = "caught", !.call = "finishAICard",
                                !.accumulated = @ \o InterruptionNotice,
                                !.content = display.accumulated \o InterruptionNotice]
  /\ UNCHANGED now
  /\ UNCHANGED displayFrame

\* the handler returns; the next message is handled
DisplayReturn ==
  /\ display.state \in {"finished", "caught"}
  /\ display' = NoDisplay
  /\ UNCHANGED now
  /\ UNCHANGED displayFrame

DisplayNext ==
  \/ DisplayStart
  \/ \E chunk \in Segments, open \in BOOLEAN : DisplayChunk(chunk, open)
  \/ \E token \in BOOLEAN : DisplayFinish(token)
  \/ DisplayCatch
  \/ DisplayReturn

SpecDisplay == Init /\ [][DisplayNext]_vars

----------------------------------------------------------------------------
(* sendWithAICard: the proactive send through a card                        *)

\* the contents handed to sendToUser and sendToGroup
ProactiveContents ==
  {<<>>, <<SP>>, <<Word("hello")>>, <<SP, Word("hello"), NL>>,
   Marker("FILE", <<LBrace, Info("ok"), RBrace>>),
   Marker("FILE", <<LBrace, Info("missing"), RBrace>>)}

\* the SendResult of sendWithAICard
SendResult(ok, usedAICard, cardInstanceId) ==
  [ok |-> ok, usedAICard |-> usedAICard, cardInstanceId |-> cardInstanceId,
   returned |-> TRUE]

\* sendWithAICard returns the result
SendReturn(p, result) ==
  /\ stack' = [stack EXCEPT ![p] = Tail(@)]
  /\ res' = [res EXCEPT ![p] = Ret("sendWithAICard", 0)]
  /\ loc' = [loc EXCEPT ![p].result = result]

\* sendWithAICard(config, targetId, content, isGroup) is called: it awaits
\* getOapiAccessToken
CallSendWithAICard(p, t, content) ==
  /\ Idle(p) /\ NoPending /\ CanStart(p)
  /\ loc' = [loc EXCEPT ![p] = [NoLoc EXCEPT !.mode = "proactive", !.target = t,
                                             !.input = content]]
  /\ stack' = [stack EXCEPT ![p] = <<"w_oapi">>]
  /\ reqs' = [reqs EXCEPT ![p] = <<>>]
  /\ UNCHANGED <<now, ticks, serial, cacheVars, inputingOk, res>>
  /\ UNCHANGED <<sessVars, dedupVars, postVars, utilVars>>

\* getOapiAccessToken settled (with the token or with null): createAICard is
\* called and runs up to its getAccessToken
SendOapiResp(p, token) ==
  /\ At(p, "w_oapi")
  /\ nextCardId + PendingCreates <= MaxCards
  /\ loc' = [loc EXCEPT ![p].token = token]
  /\ stack' = [stack EXCEPT ![p] = <<"c_token", "w_create">> \o Tail(@)]
  /\ reqs' = [reqs EXCEPT ![p] = <<Req("CTOKEN", <<>>)>>]
  /\ UNCHANGED <<now, ticks, serial, cacheVars, inputingOk, res>>
  /\ UNCHANGED <<sessVars, dedupVars, postVars, utilVars>>

\* createAICard settled: without a card the send fails, with one
\* processPostPipeline is called
SendAfterCreate(p) ==
  /\ Resumed(p, "w_create", "createAICard")
  /\ IF res[p].kind = "throw" \/ res[p].val = NoCard
       THEN SendReturn(p, SendResult(FALSE, FALSE, NoCard))
       ELSE /\ stack' = [stack EXCEPT ![p] = <<"w_post">> \o Tail(@)]
            /\ res' = [res EXCEPT ![p] = NoRes]
            /\ loc' = [loc EXCEPT ![p].created = res[p].val]
  /\ UNCHANGED <<now, ticks, serial, cacheVars, inputingOk, reqs>>
  /\ UNCHANGED <<sessVars, dedupVars, postVars, utilVars>>

\* processPostPipeline settled: on a throw the catch block reports the
\* failure; an empty finalContent is skipped; otherwise finishAICard(card,
\* finalContent) is called
SendPostResp(p, ok) ==
  LET final == trim(processPostPipeline(loc[p].input, loc[p].token)) IN
  /\ At(p, "w_post")
  /\ IF ~ok
       THEN /\ SendReturn(p, SendResult(FALSE, FALSE, NoCard))
            /\ reqs' = reqs
       ELSE IF final = <<>>
         THEN /\ SendReturn(p, SendResult(TRUE, FALSE, NoCard))
              /\ reqs' = reqs
         ELSE /\ EnterFinishAICard(p, loc[p].created, final, loc[p],
                                   <<"w_finish">> \o Tail(stack[p]), <<>>)
              /\ res' = res
  /\ UNCHANGED <<now, ticks, serial, cacheVars, inputingOk>>
  /\ UNCHANGED <<sessVars, dedupVars, postVars, utilVars>>

\* finishAICard settled: its throw is caught and reported
SendAfterFinish(p) ==
  /\ Resumed(p, "w_finish", "finishAICard")
  /\ IF res[p].kind = "throw"
       THEN SendReturn(p, SendResult(FALSE, FALSE, NoCard))
       ELSE SendReturn(p, SendResult(TRUE, TRUE, loc[p].created))
  /\ UNCHANGED <<now, ticks, serial, cacheVars, inputingOk, reqs>>
  /\ UNCHANGED <<sessVars, dedupVars, postVars, utilVars>>

\* proactive sends one after another; every request may fail
ProactiveNext ==
  \/ \E p \in Procs, t \in Targets, content \in ProactiveContents :
       CallSendWithAICard(p, t, content)
  \/ \E p \in Procs, token \in BOOLEAN : SendOapiResp(p, token)
  \/ \E p \in Procs, ok \in BOOLEAN : CreateTokenResp(p, ok)
  \/ \E p \in Procs, ok \in BOOLEAN : CreatePostResp(p, ok)
  \/ \E p \in Procs : CreateRetry(p)
  \/ \E p \in Procs : SendAfterCreate(p)
  \/ \E p \in Procs, ok \in BOOLEAN : SendPostResp(p, ok)
  \/ \E p \in Procs, ok \in BOOLEAN : StreamInputingResp(p, ok)
  \/ \E p \in Procs, r \in {"ok", "401", "err"} : StreamContentResp(p, r)
  \/ \E p \in Procs, ok \in BOOLEAN : StreamTokenResp(p, ok)
  \/ \E p \in Procs, ok \in BOOLEAN : StreamRetryResp(p, ok)
  \/ \E p \in Procs : FinishAfterStream(p)
  \/ \E p \in Procs, ok \in BOOLEAN : FinishStatusResp(p, ok)
  \/ \E p \in Procs : SendAfterFinish(p)
  \/ \E p \in Procs : CallerReturn(p)

SpecProactive == Init /\ [][ProactiveNext]_vars

----------------------------------------------------------------------------
(* utils/retry.ts: retryWithBackoff                                          *)

\* DEFAULT_RETRY_OPTIONS.baseDelay
baseDelay == 1000

\* the maxDelay passed: the default and one the backoff reaches
MaxDelays == {10000, 2500}

\* Math.random() * 1000, at the two ends of its range
Jitters == {0, 999}

\* what fn resolves to and what it rejects with (Error objects, as the
\* functions passed in this repository reject with)
FnValues == {"v1", "v2"}
FnErrors == {"e1", "e2"}

RECURSIVE Pow2(_)
Pow2(n) == IF n = 0 THEN 1 ELSE 2 * Pow2(n - 1)

\* Math.min
Min2(a, b) == IF a <= b THEN a ELSE b

\* Math.min(baseDelay * 2^attempt + jitter, maxDelay)
BackoffDelay(attempt, jitter, maxDelay) ==
  Min2(baseDelay * Pow2(attempt) + jitter, maxDelay)

\* the condition of the for loop
InLoop(attempt, maxRetries) == attempt <= maxRetries

CaughtMutKeepFirst(lastError, error) == IF lastError = "" THEN error ELSE lastError
\* lastError = error instanceof Error ? error : new Error(String(error))
Caught(lastError, error) == error

\* retryWithBackoff(fn, {maxRetries, maxDelay}) is called: the first
\* iteration invokes fn
CallRetryWithBackoff(maxRetries, maxDelay) ==
  /\ retry.state = "idle"
  /\ retry' = [retry EXCEPT !.state = "calling", !.maxRetries = maxRetries,
                            !.maxDelay = maxDelay, !.attempt = 0, !.calls = 1]
  /\ UNCHANGED now
  /\ UNCHANGED retryFrame

\* the promise of fn resolves: return await fn()
RetryFnResolves(v) ==
  /\ retry.state = "calling"
  /\ retry' = [retry EXCEPT !.state = "returned", !.result = <<"value", v>>,
                            !.outcomes = @ \o <<<<"value", v>>>>]
  /\ UNCHANGED now
  /\ UNCHANGED retryFrame

\* the promise of fn rejects: the catch block
RetryFnRejects(e, jitter) ==
  /\ retry.state = "calling"
  /\ LET lastError == Caught(retry.lastError, e)
         failed == [retry EXCEPT !.lastError = lastError,
                                 !.outcomes = @ \o <<<<"error", e>>>>]
     IN IF retry.attempt = retry.maxRetries
        THEN retry' = [failed EXCEPT !.state = "thrown",
                                     !.result = <<"error", lastError>>]
        ELSE retry' = [failed EXCEPT !.state = "sleeping",
                                     !.delay = BackoffDelay(retry.attempt, jitter,
                                                            retry.maxDelay)]
  /\ UNCHANGED now
  /\ UNCHANGED retryFrame

\* sleep(delay) is over: the next iteration invokes fn, or the loop is left
RetrySleepDone ==
  /\ retry.state = "sleeping"
  /\ IF InLoop(retry.attempt + 1, retry.maxRetries)
     THEN retry' = [retry EXCEPT !.state = "calling", !.attempt = @ + 1,
                                 !.calls = @ + 1]
     ELSE retry' = [retry EXCEPT !.state = "thrown", !.attempt = @ + 1,
                                 !.result = <<"error", retry.lastError>>]
  /\ UNCHANGED now
  /\ UNCHANGED retryFrame

RetryNext ==
  \/ \E m \in 0..MaxRetries, d \in MaxDelays : CallRetryWithBackoff(m, d)
  \/ \E v \in FnValues : RetryFnResolves(v)
  \/ \E e \in FnErrors, j \in Jitters : RetryFnRejects(e, j)
  \/ RetrySleepDone

\* fn settles and the timer of sleep fires
SpecRetry == Init /\ [][RetryNext]_vars /\ WF_vars(RetryNext)

----------------------------------------------------------------------------
(* api/token.ts: getAccessToken                                              *)

\* the buffer before the expiry within which a cached token is not used
TokenExpiryBuffer == 60000

\* maxRetries of the retryWithBackoff around the fetch
TokenMaxRetries == 3

\* expireIn of the responses, in seconds: the two-hour life the server gives
\* its tokens, and a shorter one
ExpireIns == {7200, 120}

\* the advances of the clock, up to and across the buffer of a two-hour token
TokenDelays == {1, 7200 * 1000 - TokenExpiryBuffer - 1}

CachedValidMutAtBuffer(cached, t) == cached # NoEntry /\ cached.expiry >= t + TokenExpiryBuffer
\* cached && cached.expiry > now + 60_000
CachedValid(cached, t) == cached # NoEntry /\ cached.expiry > t + TokenExpiryBuffer

\* getAccessToken(config) is called: up to the return of the cached token or
\* to the first axios.post
EnterGetAccessToken(k, c) ==
  /\ tokens.calls[k].state = "idle"
  /\ LET cached == tokens.cache[c]
         call == [NoTokenCall EXCEPT !.client = c, !.at = now, !.seen = cached]
     IN IF CachedValid(cached, now)
        THEN tokens' = [tokens EXCEPT !.calls[k] =
                       [call EXCEPT !.state = "returned", !.viaCache = TRUE,
                                    !.result = cached.token, !.stored = cached]]
        ELSE tokens' = [tokens EXCEPT !.calls[k] =
                       [call EXCEPT !.state = "fetching", !.posts = 1]]

\* a caller other than the card calls getAccessToken
CallGetAccessToken(k, c) ==
  /\ EnterGetAccessToken(k, c)
  /\ UNCHANGED now
  /\ UNCHANGED tokenFrame

\* the response carries an accessToken: it is cached with the expiry counted
\* from the now of the call, and returned
TokenFetched(k, expireIn) ==
  /\ tokens.calls[k].state = "fetching"
  /\ tokens.nextToken <= MaxTokens
  /\ LET call == tokens.calls[k]
         entry == [token |-> tokens.nextToken, expiry |-> call.at + expireIn * 1000]
     IN tokens' = [tokens EXCEPT !.cache[call.client] = entry,
                           !.nextToken = @ + 1,
                           !.calls[k] = [call EXCEPT !.state = "returned",
                                                     !.result = entry.token,
                                                     !.stored = entry,
                                                     !.expireIn = expireIn]]
  /\ UNCHANGED now
  /\ UNCHANGED tokenFrame

\* the request fails or the response carries no accessToken: fn throws, and
\* retryWithBackoff sleeps or, after the last attempt, throws
TokenFetchFails(k) ==
  /\ tokens.calls[k].state = "fetching"
  /\ tokens' = [tokens EXCEPT !.calls[k].state =
               IF tokens.calls[k].attempt = TokenMaxRetries THEN "thrown" ELSE "sleeping"]
  /\ UNCHANGED now
  /\ UNCHANGED tokenFrame

\* the sleep of retryWithBackoff is over: the next axios.post
TokenRetry(k) ==
  /\ tokens.calls[k].state = "sleeping"
  /\ tokens' = [tokens EXCEPT !.calls[k].state = "fetching",
                        !.calls[k].attempt = @ + 1,
                        !.calls[k].posts = @ + 1]
  /\ UNCHANGED now
  /\ UNCHANGED tokenFrame

\* the caller has taken the token or the error
TokenCallOver(k) ==
  /\ tokens.calls[k].state \in {"returned", "thrown"}
  /\ tokens' = [tokens EXCEPT !.calls[k] = NoTokenCall]
  /\ UNCHANGED now
  /\ UNCHANGED tokenFrame

\* the clock advances
TokenTick(d) ==
  /\ tokens.ticks < MaxTokenTicks
  /\ now' = now + d
  /\ tokens' = [tokens EXCEPT !.ticks = @ + 1]
  /\ UNCHANGED tokenFrame

TokenNext ==
  \/ \E k \in TokenCallers, c \in ClientIds : CallGetAccessToken(k, c)
  \/ \E k \in TokenCallers, e \in ExpireIns : TokenFetched(k, e)
  \/ \E k \in TokenCallers : TokenFetchFails(k)
  \/ \E k \in TokenCallers : TokenRetry(k)
  \/ \E k \in TokenCallers : TokenCallOver(k)
  \/ \E d \in TokenDelays : TokenTick(d)

SpecToken == Init /\ [][TokenNext]_vars

----------------------------------------------------------------------------
(* card/ai-card.ts with api/token.ts: the accessToken of a card, from        *)
(* createAICard to the requests of streamAICard                             *)

\* the getAccessToken calls of the card
PushCaller == NumTokenCallers

\* the answers to a content-replace request
PushResponses == {"ok", "401", "err"}

TokenSettled(k) == tokens.calls[k].state \in {"returned", "thrown"}

\* createAICard: const token = await getAccessToken(config, log)
PushCreateAICard(c) ==
  /\ push.state = "idle"
  /\ EnterGetAccessToken(PushCaller, c)
  /\ push' = [NoPush EXCEPT !.state = "c_token", !.client = c]
  /\ UNCHANGED now
  /\ UNCHANGED pushFrame

\* createAICard: the token arrived and the instance is built with
\* accessToken: token (the creation request is taken to succeed), or
\* getAccessToken threw and createAICard returns null
PushCreateSettled ==
  /\ push.state = "c_token"
  /\ TokenSettled(PushCaller)
  /\ push' = IF tokens.calls[PushCaller].state = "returned"
               THEN [push EXCEPT !.state = "card",
                                 !.accessToken = tokens.calls[PushCaller].result,
                                 !.createdAt = now]
               ELSE NoPush
  /\ tokens' = [tokens EXCEPT !.calls[PushCaller] = NoTokenCall]
  /\ UNCHANGED now
  /\ UNCHANGED pushFrame

\* streamAICard is called: the pre-emptive refresh of an old token, or the
\* content-replace request with card.accessToken
PushStreamAICard ==
  /\ push.state = "card"
  /\ push.pushes < MaxPushes
  /\ IF TokenIsOld(push, now)
       THEN /\ EnterGetAccessToken(PushCaller, push.client)
            /\ push' = [push EXCEPT !.state = "s_refresh", !.sent = <<>>,
                                    !.rejected = 0, !.fetched = FALSE]
       ELSE /\ push' = [push EXCEPT !.state = "s_content", !.sent = <<push.accessToken>>,
                                    !.rejected = 0, !.fetched = FALSE]
            /\ UNCHANGED tokens
  /\ UNCHANGED now
  /\ UNCHANGED pushFrame

\* the pre-emptive getAccessToken settled (its failure is only logged), and
\* the content-replace request is issued
PushRefreshSettled ==
  /\ push.state = "s_refresh"
  /\ TokenSettled(PushCaller)
  /\ LET token == IF tokens.calls[PushCaller].state = "returned"
                    THEN tokens.calls[PushCaller].result ELSE push.accessToken
     IN push' = [push EXCEPT !.state = "s_content", !.accessToken = token,
                             !.sent = <<token>>]
  /\ tokens' = [tokens EXCEPT !.calls[PushCaller] = NoTokenCall]
  /\ UNCHANGED now
  /\ UNCHANGED pushFrame

\* the content-replace request settled; on 401 the catch block calls
\* card.accessToken = await getAccessToken(card.config, log), which consults
\* the tokenCache as every other call does
PushContentResp(r) ==
  /\ push.state = "s_content"
  /\ IF Is401(r)
       THEN /\ EnterGetAccessToken(PushCaller, push.client)
            /\ push' = [push EXCEPT !.state = "s_token", !.rejected = push.accessToken]
       ELSE /\ push' = [push EXCEPT !.state = "card", !.pushes = @ + 1]
            /\ UNCHANGED tokens
  /\ UNCHANGED now
  /\ UNCHANGED pushFrame

\* getAccessToken of the 401 path settled: the request is re-issued with the
\* token it returned, or the push fails
PushTokenSettled ==
  /\ push.state = "s_token"
  /\ TokenSettled(PushCaller)
  /\ LET call == tokens.calls[PushCaller] IN
     push' = IF call.state = "returned"
               THEN [push EXCEPT !.state = "s_retry", !.accessToken = call.result,
                                 !.sent = Append(@, call.result),
                                 !.fetched = ~call.viaCache]
               ELSE [push EXCEPT !.state = "card", !.pushes = @ + 1]
  /\ tokens' = [tokens EXCEPT !.calls[PushCaller] = NoTokenCall]
  /\ UNCHANGED now
  /\ UNCHANGED pushFrame

\* the retried request settled
PushRetryResp(ok) ==
  /\ push.state = "s_retry"
  /\ push' = [push EXCEPT !.state = "card", !.pushes = @ + 1]
  /\ UNCHANGED <<now, tokens>>
  /\ UNCHANGED pushFrame

CredentialNext ==
  \/ \E c \in ClientIds : PushCreateAICard(c)
  \/ PushCreateSettled
  \/ PushStreamAICard
  \/ PushRefreshSettled
  \/ \E r \in PushResponses : PushContentResp(r)
  \/ PushTokenSettled
  \/ \E ok \in BOOLEAN : PushRetryResp(ok)
  \/ \E k \in TokenCallers \ {PushCaller}, c \in ClientIds : CallGetAccessToken(k, c)
  \/ \E k \in TokenCallers, e \in ExpireIns : TokenFetched(k, e)
  \/ \E k \in TokenCallers : TokenFetchFails(k)
  \/ \E k \in TokenCallers : TokenRetry(k)
  \/ \E k \in TokenCallers \ {PushCaller} : TokenCallOver(k)
  \/ \E d \in TokenDelays : TokenTick(d)

SpecCredential == Init /\ [][CredentialNext]_vars

----------------------------------------------------------------------------
(* card/ai-card.ts: streamFromGateway, from the first reader.read()          *)

\* the lines of a response body: a data line whose JSON carries the delta
\* content c ("" for an empty or absent content), a data line whose payload is
\* not JSON, a line that is not a data line, and the sentinel data: [DONE]
DataLine(c) == <<"data", c>>
BadDataLine == <<"bad", "">>
OtherLine == <<"other", "">>
DoneLine == <<"done", "">>
GatewayLines == {DataLine("a"), DataLine("b"), DataLine(""), BadDataLine, OtherLine,
                 DoneLine}

\* the text of a line is two pieces, which a read may separate; the second
\* piece is a character of two bytes, which a read may separate too
LineFeed == <<"nl", "", "">>
Pieces(line) == <<<<"first", line[1], line[2]>>, <<"second", line[1], line[2]>>>>
Bytes(line) ==
  <<<<"first", line[1], line[2]>>, <<"hi", line[1], line[2]>>, <<"lo", line[1], line[2]>>>>

\* U+FFFD, which the decoder writes for a byte sequence that is not a character
Replacement == <<"fffd", "", "">>

\* the body of the lines, each followed by a line feed, but for the last one
\* when the body is not terminated
RECURSIVE BodyOf(_, _)
BodyOf(lines, terminated) ==
  IF lines = <<>> THEN <<>>
  ELSE Bytes(Head(lines))
         \o (IF Len(lines) > 1 \/ terminated THEN <<LineFeed>> ELSE <<>>)
         \o BodyOf(Tail(lines), terminated)

\* the text of a byte sequence that begins and ends at a character boundary
RECURSIVE decodeWhole(_)
decodeWhole(bytes) ==
  IF bytes = <<>> THEN <<>>
  ELSE IF Head(bytes)[1] = "hi"
    THEN IF Len(bytes) >= 2 /\ bytes[2][1] = "lo"
           THEN <<<<"second", Head(bytes)[2], Head(bytes)[3]>>>>
                  \o decodeWhole(Tail(Tail(bytes)))
           ELSE <<Replacement>> \o decodeWhole(Tail(bytes))
    ELSE IF Head(bytes)[1] = "lo" THEN <<Replacement>> \o decodeWhole(Tail(bytes))
    ELSE <<Head(bytes)>> \o decodeWhole(Tail(bytes))

\* decoder.decode(value, { stream: true }) of a decoder that holds the bytes
\* `held` of an unfinished character: the text of the characters completed,
\* and the bytes held for the next call
decodeMutNoStream(held, value) == [text |-> decodeWhole(value), held |-> <<>>]
decode(held, value) ==
  LET bytes == held \o value
      cut == bytes # <<>> /\ bytes[Len(bytes)][1] = "hi"
  IN [text |-> decodeWhole(IF cut THEN SubSeq(bytes, 1, Len(bytes) - 1) ELSE bytes),
      held |-> IF cut THEN <<bytes[Len(bytes)]>> ELSE <<>>]

\* buffer.split('\n'): the pieces before the first line feed, or all of them
FirstLine(buffer) ==
  IF \E i \in 1..Len(buffer) : buffer[i] = LineFeed
  THEN SubSeq(buffer, 1, SetMin({i \in 1..Len(buffer) : buffer[i] = LineFeed}) - 1)
  ELSE buffer

RECURSIVE split(_)
split(buffer) ==
  IF \E i \in 1..Len(buffer) : buffer[i] = LineFeed
  THEN <<FirstLine(buffer)>>
         \o split(SubSeq(buffer, Len(FirstLine(buffer)) + 2, Len(buffer)))
  ELSE <<buffer>>

\* line.startsWith('data: ')
startsWithData(line) ==
  line # <<>> /\ line[1][1] = "first" /\ line[1][2] \in {"data", "bad", "done"}

IsSentinelMutNever(line) == FALSE
\* line.slice(6).trim() === '[DONE]'
IsSentinel(line) == line = Pieces(DoneLine)

\* JSON.parse(data).choices?.[0]?.delta?.content, "" when the parse throws or
\* there is no content
ContentOf(line) ==
  IF Len(line) = 2 /\ line = Pieces(<<line[1][2], line[1][3]>>) /\ line[1][2] = "data"
  THEN line[1][3] ELSE ""

\* the for loop over the lines: what it yields, and whether it returned
RECURSIVE ForLines(_)
ForLines(lines) ==
  IF lines = <<>> THEN [yields |-> <<>>, returned |-> FALSE]
  ELSE IF ~startsWithData(Head(lines)) THEN ForLines(Tail(lines))
  ELSE IF IsSentinel(Head(lines)) THEN [yields |-> <<>>, returned |-> TRUE]
  ELSE LET later == ForLines(Tail(lines))
           content == ContentOf(Head(lines))
       IN [later EXCEPT !.yields = (IF content # "" THEN <<content>> ELSE <<>>) \o @]

\* the response is ok and has a body: the reader is taken
CallStreamFromGateway(lines, terminated) ==
  /\ gateway.state = "idle"
  /\ gateway' = [state |-> "reading", lines |-> lines, terminated |-> terminated,
                 rest |-> BodyOf(lines, terminated), buffer |-> <<>>,
                 yielded |-> <<>>, reads |-> 0, held |-> <<>>, cuts |-> 0]
  /\ UNCHANGED now
  /\ UNCHANGED gatewayFrame

\* reader.read() gives the next n bytes: they are decoded onto the buffer and
\* the lines completed are gone through
GatewayRead(n) ==
  /\ gateway.state = "reading"
  /\ n \in 1..Len(gateway.rest)
  /\ LET decoded == decode(gateway.held, SubSeq(gateway.rest, 1, n))
         buffer == gateway.buffer \o decoded.text
         lines == split(buffer)
         loop == ForLines(SubSeq(lines, 1, Len(lines) - 1))
     IN gateway' = [gateway EXCEPT
                      !.rest = SubSeq(gateway.rest, n + 1, Len(gateway.rest)),
                      !.buffer = lines[Len(lines)],
                      !.held = decoded.held,
                      !.cuts = @ + (IF decoded.held # <<>> THEN 1 ELSE 0),
                      !.yielded = @ \o loop.yields,
                      !.reads = @ + 1,
                      !.state = IF loop.returned THEN "returned" ELSE "reading"]
  /\ UNCHANGED now
  /\ UNCHANGED gatewayFrame

\* reader.read() gives done: the loop is left
GatewayEnd ==
  /\ gateway.state = "reading"
  /\ gateway.rest = <<>>
  /\ gateway' = [gateway EXCEPT !.state = "ended"]
  /\ UNCHANGED now
  /\ UNCHANGED gatewayFrame

GatewayNext ==
  \/ \E lines \in UNION {[1..n -> GatewayLines] : n \in 0..MaxLines},
        terminated \in BOOLEAN : CallStreamFromGateway(lines, terminated)
  \/ \E n \in 1..(4 * MaxLines) : GatewayRead(n)
  \/ GatewayEnd

SpecGateway == Init /\ [][GatewayNext]_vars

----------------------------------------------------------------------------
(* Properties of the card cache and the card lifecycle *)

\* the cached instances of target t that are not terminal
LiveCached(t) ==
  {c \in cardInstances : cards[c].target = t /\ cards[c].state \notin {FINISHED, FAILED}}

\* C1: when the calls are issued one after another, every target key is mapped
\* to at most one card id and the cache holds at most one non-terminal
\* instance of each target.
C1_AtMostOneLivePerTarget ==
  \A t \in Targets :
    /\ Cardinality(LiveCached(t)) <= 1
    /\ activeCardsByTarget[t] \in CardIds \cup {NoCard}

\* a second instance was created for a target whose first one is still cached
C1_Witness ==
  \E c1, c2 \in cardInstances :
    /\ c1 # c2 /\ cards[c1].target = cards[c2].target
    /\ cards[c1].state \in {FINISHED, FAILED}
    /\ cards[c2].state \in {PROCESSING, INPUTING}
    /\ activeCardsByTarget[cards[c2].target] = c2

\* the creation requests getOrCreateCard has issued in the current call
CreateReqs(p) == SelectSeq(reqs[p], LAMBDA r : r.op = "CREATE")

\* C2: getOrCreateCard returns the mapped instance without any creation
\* request exactly when the key was mapped to a cached non-terminal instance;
\* otherwise the mapping is removed and a card is created; a created card is
\* in cardInstances and mapped; on failure null is returned and the key is
\* left without mapping.
C2_GetOrCreate ==
  \A p \in Procs :
    res[p].fn = "getOrCreateCard" =>
      LET l == loc[p]
          v == res[p].val
          reused == v # NoCard /\ v = l.preMapped /\ reqs[p] = <<>>
      IN /\ res[p].kind = "return"
         /\ reused <=> l.preLive
         /\ ~l.preLive =>
              /\ reqs[p] # <<>>
              /\ v # NoCard =>
                   /\ v >= l.preNext /\ v # l.preMapped
                   /\ Len(CreateReqs(p)) >= 1
                   /\ v \in cardInstances
                   /\ activeCardsByTarget[l.target] = v
                   /\ cards[v].target = l.target
              /\ v = NoCard => activeCardsByTarget[l.target] = NoCard

\* getOrCreateCard found a terminal mapped instance and failed to replace it
C2_Witness ==
  \E p \in Procs :
    /\ res[p].fn = "getOrCreateCard" /\ res[p].val = NoCard
    /\ loc[p].preMapped # NoCard
    /\ activeCardsByTarget[loc[p].target] = NoCard

Rank(state) ==
  CASE state = PROCESSING -> 1
    [] state = INPUTING -> 2
    [] state \in {FINISHED, FAILED} -> 3
    [] OTHER -> 0

\* C3 as stated: the state only moves forward, EXECUTING is never entered and
\* a state that is FINISHED or FAILED is never changed by a later call.
C3_TerminalNeverChanges ==
  [][\A c \in CardIds :
       /\ Rank(cards'[c].state) >= Rank(cards[c].state)
       /\ cards'[c].state # EXECUTING
       /\ cards[c].state \in {FINISHED, FAILED} => cards'[c].state = cards[c].state]_vars

\* C3 (amended): the state never moves backward (PROCESSING, then INPUTING,
\* then FINISHED or FAILED), EXECUTING is never entered, and a state that is
\* FINISHED or FAILED stays FINISHED or FAILED.
C3_StateMovesForward ==
  [][\A c \in CardIds :
       /\ Rank(cards'[c].state) >= Rank(cards[c].state)
       /\ cards'[c].state # EXECUTING
       /\ cards[c].state \in {FINISHED, FAILED} =>
            cards'[c].state \in {FINISHED, FAILED}]_vars

\* a non-final push succeeded on a card that was already FAILED
C3_Witness ==
  \E p \in Procs :
    /\ res[p] = Ret("streamAICard", 0)
    /\ ~loc[p].finished
    /\ loc[p].preState = FAILED
    /\ cards[loc[p].card].state = FAILED

\* the content-replace requests streamAICard has issued in the current call
Puts(p) == SelectSeq(reqs[p], LAMBDA r : r.op = "PUT")

\* C4: every content-replace request is preceded by a successful INPUTING
\* request for the instance; the INPUTING request succeeds at most once per
\* instance; inputingStarted is true only after it succeeded (and so is never
\* reset); no INPUTING request is in flight while inputingStarted is true.
C4_InputingOnceBeforeContent ==
  /\ \A c \in CardIds :
       /\ inputingOk[c] <= 1
       /\ cards[c].inputingStarted <=> inputingOk[c] = 1
  /\ \A p \in Procs :
       /\ Puts(p) # <<>> => inputingOk[loc[p].card] = 1
       /\ (stack[p] # <<>> /\ Head(stack[p]) = "s_inputing") =>
            ~cards[loc[p].card].inputingStarted

\* a later call on the instance sends its content without a new INPUTING request
C4_Witness ==
  \E p \in Procs :
    /\ stack[p] # <<>> /\ Head(stack[p]) = "s_content"
    /\ reqs[p][1].op = "PUT"
    /\ inputingOk[loc[p].card] = 1

\* C5: whenever streamAICard raises, the state of the instance is FAILED and
\* lastUpdated is the time of the failure.
C5_RaiseMarksFailed ==
  \A p \in Procs :
    res[p] = Thrown("streamAICard") =>
      /\ cards[loc[p].card].state = FAILED
      /\ cards[loc[p].card].lastUpdated = now

\* the getAccessToken calls streamAICard made after its first content-replace request
TokensAfterPut(p) ==
  LET rq == reqs[p]
      first == CHOOSE i \in 1..Len(rq) : rq[i].op = "PUT" /\ \A j \in 1..(i - 1) : rq[j].op # "PUT"
  IN SelectSeq(SubSeq(rq, first, Len(rq)), LAMBDA r : r.op = "TOKEN")

\* the state a successful content-replace request leaves
ExpectedState(before, finished) ==
  IF finished THEN FINISHED ELSE IF before = PROCESSING THEN INPUTING ELSE before

\* C6 as stated: a 401 on the content-replace request is always followed by
\* one getAccessToken call and exactly one re-issue of the same request body.
C6_RetryAlwaysIssued ==
  \A p \in Procs :
    (res[p].fn = "streamAICard" /\ Puts(p) # <<>> /\ Puts(p)[1].resp = "401") =>
      /\ Len(TokensAfterPut(p)) = 1
      /\ Len(Puts(p)) = 2
      /\ Puts(p)[2].body = Puts(p)[1].body

\* C6 (amended): after a 401 on the content-replace request streamAICard calls
\* getAccessToken once; when that call yields a token it re-issues the same
\* body (guid, content, isFinalize) exactly once, and when it fails no request
\* is re-issued and the push raises; a successful retry refreshes lastUpdated,
\* advances the state as a first-attempt success does and returns normally; a
\* push issues at most two content-replace requests and does not retry after
\* a failure other than 401.
C6_RetryOnceOn401 ==
  \A p \in Procs :
    (res[p].fn = "streamAICard" /\ Puts(p) # <<>>) =>
      LET puts == Puts(p)
          toks == TokensAfterPut(p)
          card == cards[loc[p].card]
      IN /\ Len(puts) <= 2
         /\ puts[1].resp = "401" =>
              /\ Len(toks) = 1
              /\ toks[1].resp = "ok" => Len(puts) = 2 /\ puts[2].body = puts[1].body
              /\ toks[1].resp = "err" => Len(puts) = 1 /\ res[p].kind = "throw"
         /\ puts[1].resp # "401" => Len(puts) = 1 /\ toks = <<>>
         /\ (Len(puts) = 2 /\ puts[2].resp = "ok") =>
              /\ res[p].kind = "return"
              /\ card.lastUpdated = now
              /\ card.state = ExpectedState(loc[p].preState, loc[p].finished)
         /\ puts[Len(puts)].resp = "ok" <=> res[p].kind = "return"

\* a push whose first request got a 401 succeeded on the retry after the clock moved
C6_Witness ==
  \E p \in Procs :
    /\ res[p] = Ret("streamAICard", 0)
    /\ Len(Puts(p)) = 2 /\ Puts(p)[1].resp = "401" /\ Puts(p)[2].resp = "ok"
    /\ loc[p].preState = PROCESSING /\ ~loc[p].finished
    /\ cards[loc[p].card].state = INPUTING
    /\ now > StartTime

\* the requests createAICard has issued in the current call
TokenFailed(p) == reqs[p] # <<>> /\ reqs[p][1].op = "CTOKEN" /\ reqs[p][1].resp = "err"

\* C7: createAICard never throws; a failed token acquisition, or a creation
\* request that failed on every attempt, yields null; every other result is a
\* new instance in state PROCESSING with inputingStarted false.
C7_CreateNeverThrows ==
  \A p \in Procs :
    res[p].fn = "createAICard" =>
      LET v == res[p].val
          posts == CreateReqs(p)
      IN /\ res[p].kind = "return"
         /\ TokenFailed(p) => v = NoCard /\ posts = <<>>
         /\ (posts # <<>> /\ posts[Len(posts)].resp = "err") =>
              v = NoCard /\ Len(posts) = CreateMaxRetries + 1
         /\ v = NoCard => TokenFailed(p) \/ (posts # <<>> /\ posts[Len(posts)].resp = "err")
         /\ v # NoCard =>
              /\ v >= loc[p].preNext /\ v \notin cardInstances
              /\ cards[v].state = PROCESSING
              /\ ~cards[v].inputingStarted
              /\ cards[v].target = loc[p].target

\* createAICard gave up after the last retry of the creation request failed
C7_Witness ==
  \E p \in Procs :
    /\ res[p] = Ret("createAICard", NoCard)
    /\ Len(CreateReqs(p)) = CreateMaxRetries + 1

\* C8: finishAICard raises exactly when its finalize push raises; the FINISHED
\* status request is issued only after the finalize push succeeded; whether
\* that request succeeds or fails the call returns normally with the state
\* FINISHED.
C8_FinishBestEffortStatus ==
  \A p \in Procs :
    LET rq == reqs[p]
        pushOk == Puts(p) # <<>> /\ Puts(p)[Len(Puts(p))].resp = "ok"
        statusAt == {i \in 1..Len(rq) : rq[i].op = "FINISHED"}
    IN /\ \A i \in statusAt :
            /\ i > 1 /\ rq[i - 1].op = "PUT" /\ rq[i - 1].resp = "ok"
            /\ rq[i - 1].body[3] = TRUE
            /\ rq[i].body = <<rq[i - 1].body[2]>>
       /\ res[p].fn = "finishAICard" =>
            /\ res[p].kind = "throw" <=> ~pushOk
            /\ res[p].kind = "return" =>
                 /\ statusAt = {Len(rq)}
                 /\ rq[Len(rq)].resp \in {"ok", "err"}
                 /\ cards[loc[p].card].state = FINISHED

\* finishAICard returned normally although its FINISHED status request failed
C8_Witness ==
  \E p \in Procs :
    /\ res[p] = Ret("finishAICard", 0)
    /\ reqs[p][Len(reqs[p])] = [op |-> "FINISHED", body |-> <<loc[p].content>>, resp |-> "err"]

\* the error notice of the handler reached the user
NoticeDelivered(p) == \E i \in 1..Len(loc[p].sent) : loc[p].sent[i] = <<"notice", TRUE>>

\* C9: when a message handled in card mode for which a card was obtained has
\* been handled, the card is FINISHED or FAILED or a message describing the
\* interruption has been delivered.
C9_NoSilentHang ==
  \A p \in Procs :
    (res[p].fn = "handleDingTalkMessage" /\ loc[p].mode = "card" /\ loc[p].card # NoCard) =>
      \/ cards[loc[p].card].state \in {FINISHED, FAILED}
      \/ NoticeDelivered(p)

\* the last call was getSessionKey(sender, false, timeout) for a sender with a session
ResolvedExisting == lastCall.sender \in Senders /\ ~lastCall.forceNew /\ lastCall.existing # NoSession

\* milliseconds between the last activity of the session and the last call
Elapsed == lastCall.at - lastCall.existing.lastActivity

C11_MintedKeysDistinct ==
  (lastCall.sender \in Senders /\ lastCall.result.isNew) =>
    lastCall.result.sessionKey \notin lastCall.earlier

\* the time since the last markMessageProcessed(m)
SinceMarked(m) == now - lastMarked[m].at

\* C12 as stated: for any message id, isMessageProcessed is false before
\* markMessageProcessed, true from the mark on for the 5-minute window
\* whatever sweeps run, and false once the window has elapsed.
C12_DedupWindow ==
  \A m \in MsgIds :
    /\ lastMarked[m] = NoMark => ~isMessageProcessed(processedMessages, m)
    /\ (lastMarked[m] # NoMark /\ SinceMarked(m) <= MESSAGE_DEDUP_TTL) =>
         isMessageProcessed(processedMessages, m)
    /\ (lastMarked[m] # NoMark /\ SinceMarked(m) > MESSAGE_DEDUP_TTL) =>
         ~isMessageProcessed(processedMessages, m)

\* C12 (amended): for any non-empty message id, isMessageProcessed is false
\* before markMessageProcessed and true from the mark on for the 5-minute
\* window whatever sweeps run; once the window has elapsed the id is still
\* reported until the next sweep removes its entry, and no sweep leaves an
\* entry marked more than 5 minutes before it; the empty id is never
\* reported.
C12_DedupWindowUntilSweep ==
  /\ ~isMessageProcessed(processedMessages, "")
  /\ \A m \in MsgIds \ {""} :
       /\ lastMarked[m] = NoMark => ~isMessageProcessed(processedMessages, m)
       /\ (lastMarked[m] # NoMark /\ SinceMarked(m) <= MESSAGE_DEDUP_TTL) =>
            isMessageProcessed(processedMessages, m)
       /\ (isMessageProcessed(processedMessages, m) /\ lastSweep # NoStamp) =>
            lastSweep - lastMarked[m].at <= MESSAGE_DEDUP_TTL
       /\ (lastMarked[m] # NoMark /\ lastSweep - lastMarked[m].at > MESSAGE_DEDUP_TTL) =>
            ~isMessageProcessed(processedMessages, m)

\* an insertion that found 100 entries swept the map: older entries are gone,
\* the one marked exactly 5 minutes ago is kept
C12_Witness ==
  /\ ~stopped /\ lastSweep = now
  /\ MapSize(processedMessages, otherMessages) < SweepSize
  /\ lastMarked["m1"] # NoMark /\ SinceMarked("m1") = MESSAGE_DEDUP_TTL
  /\ isMessageProcessed(processedMessages, "m1")

\* the last callback carried an id, and the entry its duplicate check looked at
\* was written by an earlier callback no longer ago than the dedup window
DuplicateInWindow ==
  /\ lastCallback.outcome # "none"
  /\ lastCallback.messageId # ""
  /\ lastCallback.previous.by = "callback"
  /\ lastCallback.at - lastCallback.previous.at <= MESSAGE_DEDUP_TTL

\* C13 (as stated): of two callbacks carrying the same message id within the
\* dedup window, handleDingTalkMessage is invoked for exactly one: for the
\* first, and the second is dropped.
C13_ExactlyOneInvoked ==
  DuplicateInWindow =>
    /\ lastCallback.outcome = "dropped"
    /\ lastCallback.previous.outcome = "invoked"

\* C13 (amended): of two callbacks carrying the same message id within the
\* dedup window the second is always dropped, so handleDingTalkMessage is
\* invoked for at most one of them: for the first when its payload parses as
\* JSON, for neither when it does not.
C13_AtMostOneInvoked ==
  DuplicateInWindow =>
    /\ lastCallback.outcome = "dropped"
    /\ lastCallback.previous.outcome =
         (IF lastCallback.messageId \in Malformed THEN "failed" ELSE "invoked")

C13_Witness ==
  /\ DuplicateInWindow
  /\ lastCallback.messageId = "m1"
  /\ lastCallback.outcome = "dropped"
  /\ lastCallback.previous.outcome = "invoked"
  /\ lastCallback.at - lastCallback.previous.at = MESSAGE_DEDUP_TTL
  /\ lastSweep > lastCallback.previous.at
\* the frames at which a request that names the card (INPUTING transition,
\* content-replace, FINISHED status) has been sent and has not settled
CardRequestFrames == {"s_inputing", "s_content", "s_retry", "f_status"}

\* the handlers with a request for card c in flight
InFlightFor(c) ==
  {p \in Procs : /\ stack[p] # <<>>
                 /\ Head(stack[p]) \in CardRequestFrames
                 /\ loc[p].card = c}

\* C14: no two requests (INPUTING transition, content-replace or FINISHED
\* status) for the same card instance are in flight at the same time, under
\* any interleaving of the message handlers.
C14_OneRequestInFlightPerCard ==
  \A c \in CardIds : Cardinality(InFlightFor(c)) <= 1
\* handler p has a content-replace request in flight that it issued from
\* the try block of handleWithCardMode after at most the two fragments
PushInFlight(p) ==
  /\ loc[p].mode = "card"
  /\ stack[p] # <<>> /\ Head(stack[p]) = "s_content"
  /\ loc[p].content[1] \in {"partial", "final"}
  /\ loc[p].acc \in 1..Len(GatewayStream)

\* C15 (as stated): for the stream "hello ", "world", sentinel, every
\* content-replace request follows the one INPUTING transition of the card,
\* a non-final request carries the cumulative text received so far
\* ("hello ", then "hello world"), and the request with isFinalize=true
\* carries "hello world".
C15_CumulativeText ==
  \A p \in Procs : PushInFlight(p) =>
    /\ inputingOk[loc[p].card] = 1
    /\ loc[p].content[2] = loc[p].acc
    /\ loc[p].finished = (loc[p].content[1] = "final")
    /\ \A token \in BOOLEAN :
         /\ loc[p].content[1] = "partial" =>
              CardText("partial", loc[p].acc, token) = Accumulated(loc[p].acc)
         /\ (loc[p].content[1] = "final" /\ loc[p].acc = 2) =>
              CardText("final", 2, token) = <<Word("hello"), SP, Word("world")>>

\* C15 (amended): as above, but a non-final request carries the cumulative
\* text with its leading and trailing whitespace removed: "hello" after the
\* first fragment, "hello world" after the second.
C15_CumulativeTextTrimmed ==
  \A p \in Procs : PushInFlight(p) =>
    /\ inputingOk[loc[p].card] = 1
    /\ loc[p].content[2] = loc[p].acc
    /\ loc[p].finished = (loc[p].content[1] = "final")
    /\ \A token \in BOOLEAN :
         /\ (loc[p].content[1] = "partial" /\ loc[p].acc = 1) =>
              CardText("partial", 1, token) = <<Word("hello")>>
         /\ (loc[p].content[1] = "partial" /\ loc[p].acc = 2) =>
              CardText("partial", 2, token) = <<Word("hello"), SP, Word("world")>>
         /\ (loc[p].content[1] = "final" /\ loc[p].acc = 2) =>
              CardText("final", 2, token) = <<Word("hello"), SP, Word("world")>>

\* the finalize request is in flight after both fragments, the first of
\* which was pushed
C15_Witness ==
  \E p \in Procs :
    /\ PushInFlight(p)
    /\ loc[p].content = <<"final", 2>>
    /\ loc[p].lastUpdateTime # 0
    /\ inputingOk[loc[p].card] = 1
\* the texts that are new-session commands
CommandTexts == {"/new", " /NEW "}

\* handler p was called with a new-session command by a user, with session
\* commands enabled and, in a direct chat, the sender admitted by the DM
\* policy; it has not been cleared since
CommandHandled(p) ==
  /\ loc[p].msg.sender \in Senders
  /\ loc[p].msg.text \in CommandTexts
  /\ loc[p].msg.enabled
  /\ loc[p].msg.direct => loc[p].msg.admitted

\* C16: a new-session command from an admitted user with session commands
\* enabled makes handleDingTalkMessage call getSessionKey with forceNew=true,
\* which stores the key minted at that time for the sender; the handler sends
\* exactly one message, the confirmation, and returns without a request for
\* a completion stream or a card and without running the pipeline.
C16_NewSessionCommand ==
  \A p \in Procs : CommandHandled(p) =>
    /\ loc[p].mode = "command"
    /\ lastCall.sender = loc[p].msg.sender /\ lastCall.at = loc[p].msg.at
    /\ lastCall.forceNew /\ lastCall.result.isNew
    /\ userSessions[loc[p].msg.sender] =
         [lastActivity |-> loc[p].msg.at,
          sessionId |-> TimedSessionId(loc[p].msg.sender, loc[p].msg.at)]
    /\ Len(reqs[p]) = 1
    /\ reqs[p][1].op = "SEND" /\ reqs[p][1].body = <<"new-session">>
    /\ stack[p] \in {<<>>, <<"h_newsession">>}
    /\ loc[p].card = NoCard /\ loc[p].acc = 0
    /\ nextCardId = loc[p].preNext
    /\ pipeStage = "idle"

\* the confirmation of a command written in capitals was sent in a group,
\* for a sender whose earlier session was replaced
C16_Witness ==
  \E p \in Procs :
    /\ CommandHandled(p)
    /\ loc[p].msg.text = " /NEW " /\ ~loc[p].msg.direct
    /\ stack[p] = <<>> /\ res[p] # NoRes
    /\ reqs[p][1].resp = "ok"
    /\ lastCall.existing # NoSession
    /\ lastCall.existing.sessionId # userSessions[loc[p].msg.sender].sessionId

\* the text holds an opening tag of the kind with its closing tag after it
HasSpan(s, kind) == \E i \in 1..Len(s) : MatchEnd(s, i, kind, FALSE, TRUE) # 0

\* C17: the content processPostPipeline returns holds no [DINGTALK_FILE]...
\* [/DINGTALK_FILE], [DINGTALK_VIDEO]...[/DINGTALK_VIDEO] or [DINGTALK_AUDIO]...
\* [/DINGTALK_AUDIO] span, whatever the payload between the tags and whatever
\* the outcome of validation, upload and dispatch
C17_NoMarkerSpanLeft ==
  pipeStage = "done" => \A kind \in MarkerKinds : ~HasSpan(processedContent, kind)

\* the marker of the kind that starts at index i is well-formed: its payload
\* is a JSON object on one line that names a path and a file name
WellFormedAt(s, i, kind) ==
  /\ i + 4 <= Len(s)
  /\ s[i] = OpenTag(kind)
  /\ s[i + 1] = LBrace
  /\ s[i + 2][1] = "info"
  /\ s[i + 3] = RBrace
  /\ s[i + 4] = CloseTag(kind)

\* every marker of the kind in the text is well-formed
AllWellFormed(s, kind) ==
  \A i \in 1..Len(s) : s[i] = OpenTag(kind) => WellFormedAt(s, i, kind)

\* the well-formed markers of the kind in the text, by their position
WellFormedMarkers(s, kind) == {i \in 1..Len(s) : WellFormedAt(s, i, kind)}

\* the status lines of the sequence that are of the kind and about the artifact
StatusLinesAbout(st, kind, a) ==
  {i \in 1..Len(st) : st[i][1] = "status" /\ st[i][2] = kind /\ st[i][4] = a}

\* C18: with an upload credential, the file, video or audio pass run on a text
\* whose markers of that kind are all well-formed, n of them (n = 0, 1 or
\* several), returns a text without any marker of the kind and exactly n status
\* lines, one per marker, whatever the outcome of each marker
C18_OneStatusPerMarker ==
  LET kind == lastPass.kind
      before == lastPass.before
      result == lastPass.result
  IN (kind \in MarkerKinds /\ lastPass.token /\ AllWellFormed(before, kind)) =>
       /\ ~HasSpan(result.content, kind)
       /\ \A i \in 1..Len(result.content) :
            result.content[i] \notin {OpenTag(kind), CloseTag(kind)}
       /\ Len(result.statusMessages) = Cardinality(WellFormedMarkers(before, kind))
       /\ \A a \in Artifacts :
            Cardinality(StatusLinesAbout(result.statusMessages, kind, a))
              = Cardinality({i \in WellFormedMarkers(before, kind) :
                               before[i + 2] = Info(a)})

\* a pass has run with a credential on a text with two well-formed markers of
\* its kind, one that is sent and one that is not
C18_Witness ==
  /\ lastPass.kind \in MarkerKinds
  /\ lastPass.token
  /\ AllWellFormed(lastPass.before, lastPass.kind)
  /\ Cardinality(WellFormedMarkers(lastPass.before, lastPass.kind)) = 2
  /\ \E i, j \in 1..Len(lastPass.result.statusMessages) :
       /\ lastPass.result.statusMessages[i][3] = "sent"
       /\ lastPass.result.statusMessages[j][3] # "sent"

\* the pass of the kind
MarkerPass(kind, s, token) ==
  IF kind = "FILE" THEN processFileMarkers(s, token)
  ELSE IF kind = "VIDEO" THEN processVideoMarkers(s, token)
  ELSE processAudioMarkers(s, token)

\* the artifacts that fail validation: the missing one and the oversized one
FailingArtifacts == {"missing", "big"}

\* a marker of the kind starts at index i and fails validation: its payload is
\* not JSON, or names a missing or an oversized artifact
FailsValidationAt(s, i, kind) ==
  LET j == MatchEnd(s, i, kind, TRUE, FALSE)
  IN /\ j # 0
     /\ JSONparse(SubSeq(s, i + 1, j - 1)) \in FailingArtifacts \cup {"throws"}

\* every marker of the kind in the text is well-formed or a malformed JSON
\* payload between braces on one line
WellFormedOrMalformed(s, kind) ==
  \A i \in 1..Len(s) :
    s[i] = OpenTag(kind) =>
      \/ WellFormedAt(s, i, kind)
      \/ /\ MatchEnd(s, i, kind, TRUE, FALSE) # 0
         /\ JSONparse(SubSeq(s, i + 1, MatchEnd(s, i, kind, TRUE, FALSE) - 1)) = "throws"

\* the text without its markers of the kind that fail validation
RECURSIVE WithoutFailingFrom(_, _, _)
WithoutFailingFrom(s, i, kind) ==
  IF i > Len(s) THEN <<>>
  ELSE IF FailsValidationAt(s, i, kind)
       THEN WithoutFailingFrom(s, MatchEnd(s, i, kind, TRUE, FALSE) + 1, kind)
       ELSE <<s[i]>> \o WithoutFailingFrom(s, i + 1, kind)

\* C19: a marker that fails validation (malformed JSON payload, missing
\* artifact, oversized artifact) is removed from the text and replaced by one
\* status line, and the other markers of the text are validated, uploaded and
\* dispatched as if the offending marker were absent
C19_FailingMarkerReplacedByStatus ==
  LET kind == lastPass.kind
      before == lastPass.before
      result == lastPass.result
      failing == {i \in 1..Len(before) : FailsValidationAt(before, i, kind)}
      others == MarkerPass(kind, WithoutFailingFrom(before, 1, kind), TRUE)
      passing == Artifacts \ FailingArtifacts
  IN (kind \in MarkerKinds /\ lastPass.token /\ WellFormedOrMalformed(before, kind)) =>
       /\ \A i \in 1..Len(result.content) :
            result.content[i] \notin {OpenTag(kind), CloseTag(kind)}
       /\ Len(result.statusMessages)
            = Len(others.statusMessages) + Cardinality(failing)
       /\ \A a \in passing :
            StatusLinesAbout(result.statusMessages, kind, a) # {}
              <=> StatusLinesAbout(others.statusMessages, kind, a) # {}
       /\ Keep(result.uploads, passing) = others.uploads
       /\ Keep(result.sends, passing) = others.sends

\* the text holds no media marker and no reference to a local image
MarkerFree(s) ==
  \A i \in 1..Len(s) :
    /\ s[i][1] # "image"
    /\ \A kind \in MarkerKinds : s[i] \notin {OpenTag(kind), CloseTag(kind)}

\* t is s without the whitespace at its two ends
IsTrimOf(t, s) ==
  /\ t # <<>> => ~IsWs(t[1]) /\ ~IsWs(t[Len(t)])
  /\ \E a \in 0..Len(s), b \in 0..Len(s) :
       /\ a + Len(t) + b = Len(s)
       /\ t = SubSeq(s, a + 1, a + Len(t))
       /\ \A i \in 1..Len(s) : (i <= a \/ i > a + Len(t)) => IsWs(s[i])

\* C20: processPostPipeline run on a text without media markers and local
\* image references returns content byte-identical to its input, with no
\* status lines and no upload or send calls
C20_ByteIdentical ==
  (pipeStage = "done" /\ MarkerFree(pipeInput)) =>
    /\ processedContent = pipeInput
    /\ statusMessages = <<>>
    /\ pipeCalls = <<>>

\* C20, amended: the content returned is the input without its leading and
\* trailing whitespace, with no status lines and no upload or send calls, and
\* a second run, on that content, returns it byte-identical
C20_TrimmedThenIdentical ==
  (pipeStage = "done" /\ MarkerFree(pipeInput)) =>
    /\ IsTrimOf(processedContent, pipeInput)
    /\ statusMessages = <<>>
    /\ pipeCalls = <<>>
    /\ pipeRuns > 1 => processedContent = pipeInput

\* the second run has returned, the first was on a text without markers that
\* it did not return byte-identical
C20_Witness ==
  /\ pipeStage = "done"
  /\ pipeRuns = 2
  /\ MarkerFree(prevInput)
  /\ prevInput # pipeInput
  /\ pipeInput # <<>>
  /\ processedContent = pipeInput

\* the text holds a single file marker, and its path names no file on disk
SingleMissingFileMarker(s) ==
  /\ Cardinality({i \in 1..Len(s) : s[i] = OpenTag("FILE")}) = 1
  /\ \E i \in 1..Len(s) : WellFormedAt(s, i, "FILE") /\ s[i + 2] = Info("missing")

\* the 'file not found' status lines of a text or of a list of status lines
FileNotFoundLines(st) ==
  {i \in 1..Len(st) : st[i] = StatusLine("FILE", "not-found", "missing")}

\* the status lines of the file pass in a text or a list of status lines
FileStatusLines(st) ==
  {i \in 1..Len(st) : st[i][1] = "status" /\ st[i][2] = "FILE"}

\* what C21 requires of the run that has returned
MissingFileReported ==
  /\ \A i \in 1..Len(processedContent) :
       processedContent[i] \notin {OpenTag("FILE"), CloseTag("FILE")}
  /\ Cardinality(FileStatusLines(statusMessages)) = 1
  /\ Cardinality(FileNotFoundLines(statusMessages)) = 1
  /\ Cardinality(FileNotFoundLines(processedContent)) = 1
  /\ \A i \in 1..Len(pipeCalls) : pipeCalls[i] # "missing"

\* C21: a text with a single file marker whose path does not exist on disk
\* gives output with the marker removed and exactly one 'file not found'
\* status line, and no upload and no file-message send is issued for it
C21_MissingFileReported ==
  (pipeStage = "done" /\ SingleMissingFileMarker(pipeInput)) => MissingFileReported

\* C21, amended: the same, when the context holds an upload credential
C21_MissingFileReportedWithCredential ==
  (pipeStage = "done" /\ oapiToken /\ SingleMissingFileMarker(pipeInput)) =>
    MissingFileReported

\* the pipeline has returned for such a text, with a credential
C21_Witness ==
  /\ pipeStage = "done"
  /\ oapiToken
  /\ SingleMissingFileMarker(pipeInput)
  /\ Cardinality(FileNotFoundLines(processedContent)) = 1

\* the lexemes of the text that are neither whitespace nor part of a marker
\* that the pattern of a pass matches
RECURSIVE OutsideMarkersFrom(_, _)
OutsideMarkersFrom(s, i) ==
  IF i > Len(s) THEN <<>>
  ELSE LET ends == {MatchEnd(s, i, kind, TRUE, FALSE) : kind \in MarkerKinds} \ {0}
       IN IF ends # {} THEN OutsideMarkersFrom(s, SetMin(ends) + 1)
          ELSE (IF IsWs(s[i]) THEN <<>> ELSE <<s[i]>>) \o OutsideMarkersFrom(s, i + 1)

\* C22: without an upload credential processPostPipeline issues no upload and
\* no media send, every pass only strips its markers (images are left as they
\* are), and the result carries no status line
C22_NoCredentialOnlyStrips ==
  (pipeStage # "idle" /\ ~oapiToken) =>
    /\ pipeCalls = <<>>
    /\ statusMessages = <<>>
    /\ lastPass.kind \in MarkerKinds =>
         /\ lastPass.result.statusMessages = <<>>
         /\ \A i \in 1..Len(lastPass.result.content) :
              MatchEnd(lastPass.result.content, i, lastPass.kind, TRUE, FALSE) = 0
    /\ pipeStage = "done" =>
         /\ \A i \in 1..Len(processedContent), kind \in MarkerKinds :
              MatchEnd(processedContent, i, kind, TRUE, FALSE) = 0
         /\ \A i \in 1..Len(processedContent) :
              processedContent[i][1] = "status" =>
                \E j \in 1..Len(pipeInput) : pipeInput[j] = processedContent[i]
         /\ OutsideMarkersFrom(processedContent, 1) = OutsideMarkersFrom(pipeInput, 1)

\* the pipeline has returned, without a credential, for a text of two
\* well-formed markers of different kinds
C22_Witness ==
  /\ pipeStage = "done"
  /\ ~oapiToken
  /\ \E k1, k2 \in MarkerKinds :
       /\ k1 # k2
       /\ pipeInput = Marker(k1, <<LBrace, Info("ok"), RBrace>>)
                        \o Marker(k2, <<LBrace, Info("ok"), RBrace>>)
  /\ processedContent = <<>>

\* retryWithBackoff has returned or thrown
RetrySettled == retry.state \in {"returned", "thrown"}

\* the invocations of fn so far and what the call has settled to
RetryOutcomeAsClaimed ==
  LET n == Len(retry.outcomes)
      failed == \A i \in 1..n : retry.outcomes[i][1] = "error"
  IN /\ retry.calls <= retry.maxRetries + 1
     /\ retry.calls = n + (IF retry.state = "calling" THEN 1 ELSE 0)
     /\ \A i \in 1..(n - 1) : retry.outcomes[i][1] = "error"
     /\ retry.state = "returned" =>
          /\ n >= 1
          /\ retry.outcomes[n][1] = "value"
          /\ retry.result = retry.outcomes[n]
     /\ retry.state = "thrown" =>
          /\ failed
          /\ n = retry.maxRetries + 1
          /\ retry.result = retry.outcomes[n]
     /\ (RetrySettled /\ failed) => retry.state = "thrown"
     /\ (retry.state \in {"calling", "sleeping"}) => failed

\* C23: retryWithBackoff(fn, {maxRetries}) always terminates after invoking fn
\* at most maxRetries + 1 times: it returns the result of the first successful
\* invocation and invokes fn no further, and it throws exactly when every
\* invocation failed, the thrown error being that of the last invocation
C23_RetryTerminates ==
  /\ []RetryOutcomeAsClaimed
  /\ (retry.state = "calling") ~> RetrySettled

\* every invocation failed, the last with another error than the first, and
\* retryWithBackoff has thrown
C23_Witness ==
  /\ retry.state = "thrown"
  /\ retry.maxRetries = 2
  /\ Len(retry.outcomes) = 3
  /\ retry.outcomes[1] # retry.outcomes[3]

\* the entry the call found in the cache leaves more than the buffer
FoundFresh(call) ==
  call.seen # NoEntry /\ call.seen.expiry - call.at > TokenExpiryBuffer

\* what C24 requires of one call of getAccessToken, as far as it has come
TokenCallAsClaimed(call) ==
  /\ (call.state = "returned" /\ call.viaCache) =>
       /\ FoundFresh(call)
       /\ call.posts = 0
       /\ call.result = call.seen.token
  /\ (call.state # "idle" /\ ~call.viaCache) =>
       /\ ~FoundFresh(call)
       /\ call.posts >= 1
  /\ (call.state # "idle" /\ ~FoundFresh(call)) => ~call.viaCache
  /\ (call.state = "returned" /\ ~call.viaCache) =>
       call.stored = [token |-> call.result,
                      expiry |-> call.at + call.expireIn * 1000]
  /\ call.state = "returned" =>
       /\ call.stored.token = call.result
       /\ call.stored.expiry - call.at > TokenExpiryBuffer

\* a call that returns a fetched token has stored it under its client id, and
\* no call changes the entry of another client id
TokenStoredUnderClient ==
  \A k \in TokenCallers :
    /\ (tokens.calls[k].state = "fetching" /\ tokens'.calls[k].state = "returned") =>
         /\ tokens'.cache[tokens.calls[k].client] = tokens'.calls[k].stored
         /\ \A c \in ClientIds \ {tokens.calls[k].client} :
              tokens'.cache[c] = tokens.cache[c]
    /\ tokens'.calls[k].state # "returned" \/ tokens.calls[k].state # "fetching"
         \/ tokens'.calls[k].result \notin {tokens.cache[c].token : c \in ClientIds}

CompleteLines ==
  IF gateway.terminated \/ gateway.lines = <<>> THEN gateway.lines
  ELSE SubSeq(gateway.lines, 1, Len(gateway.lines) - 1)

\* the lines before the first sentinel line
RECURSIVE BeforeSentinel(_)
BeforeSentinel(lines) ==
  IF lines = <<>> \/ Head(lines) = DoneLine THEN <<>>
  ELSE <<Head(lines)>> \o BeforeSentinel(Tail(lines))

\* the non-empty contents of the well-formed data lines, in order
RECURSIVE Contents(_)
Contents(lines) ==
  IF lines = <<>> THEN <<>>
  ELSE (IF Head(lines)[1] = "data" /\ Head(lines)[2] # "" THEN <<Head(lines)[2]>>
        ELSE <<>>) \o Contents(Tail(lines))

\* C25: streamFromGateway yields, in arrival order, exactly the non-empty delta
\* contents of the well-formed data lines (lines ended by a line feed) before
\* the first data: [DONE] line; lines that are not data lines or whose payload
\* is not JSON are skipped without ending the sequence, and nothing after the
\* sentinel is yielded
C25_YieldsContentsBeforeSentinel ==
  LET expected == Contents(BeforeSentinel(CompleteLines))
      n == Len(gateway.yielded)
  IN /\ n <= Len(expected)
     /\ gateway.yielded = SubSeq(expected, 1, n)
     /\ gateway.state \in {"returned", "ended"} => gateway.yielded = expected
     /\ gateway.state = "returned" =>
          \E i \in 1..Len(CompleteLines) : CompleteLines[i] = DoneLine
     /\ gateway.state = "ended" =>
          \A i \in 1..Len(CompleteLines) : CompleteLines[i] # DoneLine

\* the generator has returned at the sentinel, after a line that is not JSON
\* and a content that arrived in two reads
C25_Witness ==
  /\ gateway.state = "returned"
  /\ Len(gateway.lines) >= 3
  /\ SubSeq(gateway.lines, 1, 3) = <<BadDataLine, DataLine("a"), DoneLine>>
  /\ gateway.yielded = <<"a">>
  /\ gateway.reads >= 3

\* the positions of a step among the steps of the last callback
StepsOf(what) ==
  {i \in 1..Len(lastCallback.steps) : lastCallback.steps[i] = what}

\* the callback has acknowledged once, before anything else it did
AcknowledgedFirst ==
  /\ Cardinality(StepsOf("ack")) = 1
  /\ lastCallback.steps[1] = "ack"

\* C26: for every stream callback the acknowledgment is issued before the
\* duplicate check and before any handling starts, exactly once, duplicates
\* included, and whether the handling succeeds, fails or is skipped
C26_AcknowledgedFirst ==
  lastCallback # NoCallback => AcknowledgedFirst

\* C26, amended: so it is for every callback whose headers carry a messageId;
\* a callback without a messageId is not acknowledged, and is handled
C26_AcknowledgedFirstWithId ==
  lastCallback # NoCallback =>
    /\ lastCallback.messageId # "" => AcknowledgedFirst
    /\ lastCallback.messageId = "" =>
         /\ StepsOf("ack") = {}
         /\ lastCallback.outcome # "dropped"
    /\ lastCallback.outcome = "dropped" <=> StepsOf("parse") = {}
    /\ lastCallback.outcome = "invoked" <=> StepsOf("handle") # {}

\* a duplicate has been acknowledged and dropped
C26_Witness ==
  /\ lastCallback.outcome = "dropped"
  /\ lastCallback.steps = <<"ack", "check">>

\* the final messages handleWithSDKMode has sent with sendMessage: the reply
\* and the error notice
FinalMessages(p) ==
  {i \in 1..Len(loc[p].sent) : loc[p].sent[i][1] \in {"reply", "notice"}}

\* the requests made on a card: the status and the content requests
CardRequests(p) ==
  {i \in 1..Len(reqs[p]) : reqs[p][i].op \in {"INPUTING", "PUT", "FINISHED"}}

\* the handler of the process has fallen back to handleWithSDKMode and is over
FallbackOver(p) ==
  /\ loc[p].mode = "sdk"
  /\ res[p] # NoRes
  /\ res[p].fn = "handleDingTalkMessage"

\* C27: when getOrCreateCard returns null the card-mode handler processes the
\* message in batched mode: the completion stream is requested once, no
\* request is made on a card, and one final message is sent to the user, the
\* batched reply (the error message when the stream or the pipeline failed)
C27_FallbackToBatched ==
  \A p \in Procs :
    loc[p].mode = "sdk" =>
      /\ CardRequests(p) = {}
      /\ loc[p].streams <= 1
      /\ Cardinality(FinalMessages(p)) <= 1
      /\ FallbackOver(p) =>
           /\ loc[p].streams = 1
           /\ Cardinality(FinalMessages(p)) = 1
           /\ loc[p].sent[Len(loc[p].sent)][1] \in {"reply", "notice"}

\* the fallback is over and the batched reply has been delivered
C27_Witness ==
  \E p \in Procs :
    /\ FallbackOver(p)
    /\ loc[p].acc = MaxChunks
    /\ loc[p].sent[Len(loc[p].sent)] = <<"reply", TRUE>>

\* the process handles a group message whose conversation id groupAllowlist
\* does not hold, groupPolicy being allowlist
UnlistedGroupMessage(p) ==
  /\ loc[p].mode # "idle"
  /\ loc[p].msg.sender \in Senders
  /\ ~loc[p].msg.direct
  /\ ~loc[p].msg.listed

\* C28: with groupPolicy allowlist, a group message whose conversation id is
\* not in groupAllowlist is not processed: no session update, no card
\* creation, no completion request and no reply
C28_UnlistedGroupIgnored ==
  \A p \in Procs :
    UnlistedGroupMessage(p) =>
      /\ loc[p].mode = "ignored"
      /\ reqs[p] = <<>>
      /\ loc[p].streams = 0
      /\ userSessions[loc[p].msg.sender] = NoSession
           \/ userSessions[loc[p].msg.sender].lastActivity # loc[p].msg.at

\* the card instances of the cache that are for the target and not in a
\* terminal state
LiveCardsOf(t) ==
  {c \in cardInstances : cards[c].target = t /\ ~isCardInTerminalState(cards[c].state)}

\* C29: under concurrent handling of two messages for the same target, with
\* the two getOrCreateCard calls overlapping across the awaited creation
\* request, at most one non-terminal card instance for that target exists in
\* the cache at any time
C29_OneLiveCardPerTarget ==
  \A t \in Targets : Cardinality(LiveCardsOf(t)) <= 1

\* the requests that address a card instance
CardOps == {"INPUTING", "PUT", "FINISHED"}

\* in this step process p issues a request for card c
IssuesCardRequest(p, c) ==
  /\ reqs'[p] # reqs[p] /\ reqs'[p] # <<>>
  /\ reqs'[p][Len(reqs'[p])].resp = "pending"
  /\ reqs'[p][Len(reqs'[p])].op \in CardOps
  /\ loc'[p].card = c

\* in this step finishAICard of process p follows its own successful finalize
\* push with the FINISHED status request
ClosesOwnFinalize(p) ==
  /\ Resumed(p, "f_stream", "streamAICard")
  /\ reqs'[p][Len(reqs'[p])].op = "FINISHED"

\* C30: once a content-replace request with isFinalize=true has succeeded for
\* a card instance (its state is FINISHED), no handler issues a further
\* INPUTING, content-replace or status request for that instance, under any
\* interleaving of the message handlers of one conversation; the FINISHED
\* status request with which finishAICard concludes that same finalize push
\* is not counted as a further request.
C30_NoRequestAfterFinalize ==
  [][\A c \in CardIds : \A p \in Procs :
       (cards[c].state = FINISHED /\ IssuesCardRequest(p, c)) => ClosesOwnFinalize(p)]_vars

\* C31: when a content-replace request is rejected with 401, the request that
\* is re-issued carries a token that getAccessToken fetched from the server
\* after the rejection, never the cached token that was just rejected.
C31_RetryCarriesFreshToken ==
  Len(push.sent) = 2 => (push.fetched /\ push.sent[2] # push.rejected)

\* the frames at which streamAICard waits for DingTalk
StreamFrames == {"s_refresh", "s_inputing", "s_content", "s_token", "s_retry"}

\* handler p is inside the streamAICard call that `frame` of handleWithCardMode
\* awaits
Pushing(p, frame) ==
  /\ loc[p].mode = "card"
  /\ stack[p] # <<>> /\ Head(stack[p]) \in StreamFrames
  /\ InFrames(p, {frame})

\* every content-replace request of the current call of handler p replaces
\* the whole content with the text derived from all `acc` fragments received,
\* with the given isFinalize
FullPushes(p, kind, finalize) ==
  \A i \in 1..Len(Puts(p)) :
    Puts(p)[i].body[2] = <<kind, loc[p].acc>> /\ Puts(p)[i].body[3] = finalize
      /\ Puts(p)[i].body[4] = TRUE

\* handler p returned from the try block of handleWithCardMode
ReturnedFromTry(p) ==
  /\ res[p].fn = "handleDingTalkMessage" /\ res[p].kind = "return"
  /\ loc[p].mode = "card" /\ ~loc[p].notice

C32_PushRules ==
  \A p \in Procs :
    /\ Pushing(p, "h_push") =>
         /\ loc[p].chunkNow - loc[p].lastUpdateTime >= updateInterval
         /\ ~loc[p].finished
         /\ FullPushes(p, "partial", FALSE)
    /\ Pushing(p, "h_finish") =>
         /\ loc[p].finished
         /\ FullPushes(p, "final", TRUE)
    /\ ReturnedFromTry(p) =>
         /\ Puts(p) # <<>>
         /\ Puts(p)[Len(Puts(p))].resp = "ok"
         /\ FullPushes(p, "final", TRUE)

\* a handler that awaits a push consumes no fragment
C32_AwaitsPush ==
  \A p \in Procs :
    InFrames(p, {"h_push"}) => loc'[p].acc = loc[p].acc

\* C32: in card mode a non-final push is issued for a fragment only when at
\* least 300 ms lie between its arrival and the time recorded for the previous
\* non-final push; while a push is awaited the handler consumes no fragment;
\* every content-replace request carries the text of all fragments received
\* so far with isFull=true; and the finalize request of the try block carries
\* the text of all fragments whatever the throttle skipped, and has succeeded
\* whenever the handler returns from the try block.
C32_ThrottledFullPushes ==
  []C32_PushRules /\ [][C32_AwaitsPush]_vars

\* a handler returned after a finalize push of both fragments, the second of
\* which had arrived 299 ms after the first was pushed and was skipped
C32_Witness ==
  \E p \in Procs :
    /\ ReturnedFromTry(p)
    /\ loc[p].acc = 2
    /\ loc[p].lastUpdateTime # 0
    /\ loc[p].chunkNow - loc[p].lastUpdateTime = updateInterval - 1

\* C33: every content string handleWithCardMode sends to a card (a streaming
\* push, the finalize of the try block, the finalize of the catch block) holds
\* no complete [DINGTALK_FILE]...[/DINGTALK_FILE], [DINGTALK_VIDEO]...
\* [/DINGTALK_VIDEO] or [DINGTALK_AUDIO]...[/DINGTALK_AUDIO] span.
C33_NoMarkerSpanSent ==
  display.call # "none" => \A kind \in MarkerKinds : ~HasSpan(display.content, kind)

\* the instances this step removes from the instance cache
Swept == cardInstances \ cardInstances'

\* a sweep removes the terminal instances last updated more than an hour ago
\* and no other, unmaps the keys that pointed at them and changes no instance;
\* a call of cleanupCardCache on its own leaves every other mapping as it was
C34_SweepStep ==
  Swept # {} =>
    /\ Swept = {c \in cardInstances : /\ cards[c].state \in {FINISHED, FAILED}
                                      /\ now - cards[c].lastUpdated > 60 * 60 * 1000}
    /\ cards' = cards
    /\ \A t \in Targets : activeCardsByTarget[t] \in Swept => activeCardsByTarget'[t] = NoCard
    /\ (stack' = stack) =>
         \A t \in Targets :
           activeCardsByTarget[t] \notin Swept => activeCardsByTarget'[t] = activeCardsByTarget[t]

\* no target key is mapped to an instance that the instance cache lacks
C34_NoDanglingMapping ==
  \A t \in Targets :
    activeCardsByTarget[t] # NoCard => activeCardsByTarget[t] \in cardInstances

\* C34: cleanupCardCache removes exactly the cached instances that are
\* terminal and whose lastUpdated is more than one hour old, together with
\* the activeCardsByTarget entry pointing at each of them, and leaves every
\* other instance and mapping unchanged; after any sequence of operations no
\* mapping refers to an instance absent from the instance cache.
C34_SweepExactNoDangling ==
  []C34_NoDanglingMapping /\ [][C34_SweepStep]_vars

\* an expired terminal instance was swept with its mapping while a terminal
\* instance updated within the hour stays cached
C34_Witness ==
  \E c1 \in CardIds \ cardInstances : \E c2 \in cardInstances :
    /\ cards[c1].state \in {FINISHED, FAILED}
    /\ activeCardsByTarget[cards[c1].target] = NoCard
    /\ cards[c2].state \in {FINISHED, FAILED}
    /\ now - cards[c2].lastUpdated <= CARD_CACHE_TTL

\* C35: all creation requests of one createAICard call, the first attempt and
\* its retries, carry the same outTrackId, and one call issues at most three
\* of them: a single create call names at most one remote card.
C35_OneTrackIdPerCreate ==
  \A p \in Procs :
    LET posts == CreateReqs(p) IN
    /\ Len(posts) <= 3
    /\ \A i, j \in 1..Len(posts) : posts[i].body = posts[j].body

\* a creation request succeeded on its third attempt
C35_Witness ==
  \E p \in Procs :
    /\ res[p].fn = "createAICard" /\ res[p].val # NoCard
    /\ Len(CreateReqs(p)) = 3
    /\ CreateReqs(p)[3].resp = "ok"

\* the handler of the process is in handleWithSDKMode, or has returned from it
InSdkMode(p) == loc[p].mode = "sdk"

\* C36: handleWithSDKMode never raises and attempts exactly one reply send per
\* message, the thinking indicator apart: when the stream and the
\* post-processing completed, the post-processed content or, when that is
\* empty, the placeholder; otherwise one error notice; never both, never
\* neither.
C36_ExactlyOneReply ==
  \A p \in Procs :
    InSdkMode(p) =>
      /\ res[p].kind # "throw"
      /\ Cardinality(FinalMessages(p)) <= 1
      /\ FallbackOver(p) =>
           LET last == loc[p].sent[Len(loc[p].sent)] IN
           /\ Cardinality(FinalMessages(p)) = 1
           /\ loc[p].outcome \in {"completed", "failed"}
           /\ loc[p].outcome = "completed" =>
                /\ last[1] = "reply"
                /\ SdkText(loc[p].acc, loc[p].token) # <<>>
                /\ loc[p].acc = 0 => SdkText(loc[p].acc, loc[p].token) = NoResponse
                /\ loc[p].acc > 0 =>
                     SdkText(loc[p].acc, loc[p].token) = trim(Accumulated(loc[p].acc))
           /\ loc[p].outcome = "failed" => last[1] = "notice"

\* the stream ended without a fragment and the placeholder was sent; its
\* delivery failed and nothing else was sent
C36_Witness ==
  \E p \in Procs :
    /\ FallbackOver(p)
    /\ loc[p].outcome = "completed" /\ loc[p].acc = 0
    /\ loc[p].sent[Len(loc[p].sent)] = <<"reply", FALSE>>

\* allowFrom names the sender: an entry is the wildcard, or spells the sender
\* id in some case, bare or behind a dingtalk:, dd: or ding: prefix
NamedBy(allowFrom, sender) ==
  \E i \in 1..Len(allowFrom) :
    \/ allowFrom[i] = Wildcard
    \/ /\ allowFrom[i][2] = SenderIdOf(sender)
       /\ allowFrom[i][1] \in {""} \cup StrippedPrefixes

\* the message the handler of p was called with is a direct message of a
\* user whom allowFrom does not name, dmPolicy being allowlist
UnnamedDirectMessage(m) ==
  /\ m.sender \in Senders
  /\ m.direct
  /\ m.dm.dmPolicy = "allowlist"
  /\ ~NamedBy(m.dm.allowFrom, m.sender)

\* nothing of the handling of such a message is under way
C37_NothingStarted ==
  \A p \in Procs :
    UnnamedDirectMessage(loc[p].msg) =>
      /\ loc[p].mode = "ignored"
      /\ loc[p].card = NoCard
      /\ loc[p].streams = 0
      /\ \A i \in 1..Len(reqs[p]) : reqs[p][i].op \notin {"CTOKEN", "CREATE"}

\* the call of the handler with such a message leaves the sessions and the
\* cards as they were
C37_CallStep ==
  \A p \in Procs :
    (Idle(p) /\ ~Idle(p)' /\ UnnamedDirectMessage(loc'[p].msg)) =>
      /\ UNCHANGED sessVars
      /\ nextCardId' = nextCardId

\* C37: with dmPolicy allowlist, a direct message from a sender whom allowFrom
\* does not name (no entry equal to the sender id ignoring case and the
\* dingtalk:, dd: or ding: prefix, and no wildcard) creates or refreshes no
\* session, creates no card and requests no completion, whatever allowFrom
\* is, the empty list included.
C37_UnnamedSenderRefused == []C37_NothingStarted /\ [][C37_CallStep]_vars

\* a direct message under an allowlist that names the sender in capitals
\* behind a prefix is handled, and one under a list naming another user is
\* refused with the notice
C37_AdmitsNamed ==
  \E p \in Procs :
    /\ loc[p].msg.direct /\ loc[p].msg.dm.dmPolicy = "allowlist"
    /\ loc[p].msg.dm.allowFrom = <<Entry("DD:", "u1", TRUE)>>
    /\ loc[p].mode = "card" /\ loc[p].streams = 1

C37_RefusesOther ==
  \E p \in Procs :
    /\ UnnamedDirectMessage(loc[p].msg)
    /\ loc[p].msg.dm.allowFrom = <<Entry("wx:", "u1", FALSE)>>
    /\ loc[p].mode = "ignored"
    /\ reqs[p] = <<Req("SEND", <<"refused">>)>>

\* sendWithAICard of p returned ok having obtained a card from createAICard
SentOkWithCard(p) ==
  /\ loc[p].mode = "proactive"
  /\ loc[p].result.returned /\ loc[p].result.ok
  /\ loc[p].created # NoCard

\* finishAICard was called for the card createAICard returned to p
FinishCalled(p) == loc[p].finished /\ loc[p].card = loc[p].created

\* C38: every card sendWithAICard creates is finalized by a finishAICard
\* call or the call reports ok=false: no call returns ok=true having created
\* a card for which finishAICard was never called.
C38_CreatedCardFinalized ==
  \A p \in Procs : SentOkWithCard(p) => FinishCalled(p)

\* what streamFromGateway does when the whole body arrives in one read: the
\* fragments it yields and whether it returns at the sentinel
OneRead(lines, terminated) ==
  LET all == split(decode(<<>>, BodyOf(lines, terminated)).text)
  IN ForLines(SubSeq(all, 1, Len(all) - 1))

\* C39: the sequence of fragments streamFromGateway yields depends only on
\* the bytes of the response body, not on how the transport splits them into
\* chunks: whatever the reads, splits inside a data line and inside a
\* character included, the generator yields what it yields when the body
\* arrives in one read, and ends the same way.
C39_ChunkingIndependent ==
  LET whole == OneRead(gateway.lines, gateway.terminated)
      n == Len(gateway.yielded)
  IN /\ n <= Len(whole.yields)
     /\ gateway.yielded = SubSeq(whole.yields, 1, n)
     /\ gateway.state \in {"returned", "ended"} => gateway.yielded = whole.yields
     /\ gateway.state = "returned" => whole.returned
     /\ gateway.state = "ended" => ~whole.returned

\* a body of two contents and the sentinel was read in more reads than it has
\* lines, two of which ended inside a character
C39_Witness ==
  /\ gateway.state = "returned"
  /\ gateway.lines = <<DataLine("a"), DataLine("b"), DoneLine>>
  /\ gateway.yielded = <<"a", "b">>
  /\ gateway.reads > 3
  /\ gateway.cuts >= 2

====
